---- MODULE Spec2Model ----
(***************************************************************************)
(* Model of the wix-blog-export image acquisition engine                   *)
(* (src/lib/image-downloader.ts), the naming utilities it uses             *)
(* (src/lib/utils.ts) and the export pipeline that consumes its mapping    *)
(* (PostExporter, ZipBundler).                                             *)
(*                                                                         *)
(* Strings the code takes apart (slugs, ids, titles, file texts) are       *)
(* sequences of short strings, the double quote and the line feed being    *)
(* elements of their own; a path is a sequence of components, each         *)
(* component such a sequence; a URL is a record of the parts the code      *)
(* looks at.                                                               *)
(***************************************************************************)
EXTENDS Integers, Sequences, FiniteSets, TLC

(* ------------------------------ bounds --------------------------------- *)

MaxConcurrency == 2

MaxExportPosts == 2

(* ------------------------- program constants --------------------------- *)

DefaultRetry == 3

DefaultTimeoutMs == 20000

BackoffUnitMs == 1000

BackoffBase == 2

\* .slice(0, 10) of the tag ranking
TopTagsLimit == 10

(* ------------------------------ strings -------------------------------- *)

Quote == "\""

Newline == "\n"

\* a property that is undefined
Absent == "<absent>"

(* ------------------------------- URLs ---------------------------------- *)

\* scheme "" : the text has no scheme (a relative reference or the empty string);
\* host "["  : an authority the URL parser rejects (e.g. "http://[").
Url(s, h, e) == [scheme |-> s, host |-> h, ext |-> e]

NoUrl == Url("", "", "")

UrlA == Url("https", "a", ".png")

UrlB == Url("http", "b", "")

UrlBadHost == Url("https", "[", ".png")

UrlFtp == Url("ftp", "a", ".png")

UrlRelative == Url("", "img", ".png")

UrlData == Url("data", "x", "")

\* new URL(url) succeeds: an absolute URL with a scheme and a parsable authority.
UrlParses(u) == u.scheme # "" /\ u.host # "" /\ u.host # "["

IsValidImageUrlAny(u) == UrlParses(u)

IsValidImageUrl(u) == UrlParses(u) /\ u.scheme \in {"http", "https"}

\* The part of the image regex that captures the URL: https?:\/\/[^\s)]+
MatchesInlinePattern(u) == u.scheme \in {"http", "https"} /\ u.host # ""

ValidExts == {".jpg", ".jpeg", ".png", ".gif", ".webp", ".svg", ".bmp"}

GetFileExtensionFromUrl(u) == IF UrlParses(u) /\ u.ext \in ValidExts THEN u.ext ELSE ".jpg"

\* the text of a URL
UrlText(u) ==
    (IF u.scheme = "" THEN <<>> ELSE IF u.scheme = "data" THEN <<"data", ":">>
     ELSE <<u.scheme, "://">>) \o <<u.host>> \o (IF u.ext = "" THEN <<>> ELSE <<"/i", u.ext>>)

(* --------------------------- sanitizeFilename -------------------------- *)

ToLowerChar(c) == CASE c = "A" -> "a" [] c = "B" -> "b" [] OTHER -> c

IsSpace(c) == c = " "

IsKept(c) == c \in {"a", "b", "1", "2", "-", "_", "."}

RECURSIVE ToLowerCase(_)
ToLowerCase(s) == IF s = <<>> THEN <<>> ELSE <<ToLowerChar(Head(s))>> \o ToLowerCase(Tail(s))

\* .replace(/\s+/g, '-')
RECURSIVE ReplaceSpaceRuns(_)
ReplaceSpaceRuns(s) ==
    IF s = <<>> THEN <<>>
    ELSE IF IsSpace(Head(s))
         THEN IF Len(s) > 1 /\ IsSpace(s[2])
              THEN ReplaceSpaceRuns(Tail(s))
              ELSE <<"-">> \o ReplaceSpaceRuns(Tail(s))
         ELSE <<Head(s)>> \o ReplaceSpaceRuns(Tail(s))

\* .replace(/[^a-z0-9\-_.]/g, '')
RemoveInvalid(s) == SelectSeq(s, IsKept)

\* .replace(/-+/g, '-')
RECURSIVE CollapseDashes(_)
CollapseDashes(s) ==
    IF s = <<>> THEN <<>>
    ELSE IF Head(s) = "-" /\ Len(s) > 1 /\ s[2] = "-"
         THEN CollapseDashes(Tail(s))
         ELSE <<Head(s)>> \o CollapseDashes(Tail(s))

\* .replace(/^-+|-+$/g, '')
RECURSIVE TrimLeadingDashes(_)
TrimLeadingDashes(s) ==
    IF s # <<>> /\ Head(s) = "-" THEN TrimLeadingDashes(Tail(s)) ELSE s

RECURSIVE TrimTrailingDashes(_)
TrimTrailingDashes(s) ==
    IF s # <<>> /\ s[Len(s)] = "-" THEN TrimTrailingDashes(SubSeq(s, 1, Len(s) - 1)) ELSE s

SanitizeFilename(s) ==
    TrimTrailingDashes(TrimLeadingDashes(CollapseDashes(RemoveInvalid(ReplaceSpaceRuns(ToLowerCase(s))))))

(* ------------------------------- paths --------------------------------- *)

\* path.normalize(path.join(...parts)): "" and "." components vanish, ".." removes
\* the component before it.
RECURSIVE NormalizeOnto(_, _)
NormalizeOnto(done, rest) ==
    IF rest = <<>> THEN done
    ELSE IF Head(rest) = <<>> \/ Head(rest) = <<".">>
         THEN NormalizeOnto(done, Tail(rest))
         ELSE IF Head(rest) = <<".", ".">>
              THEN IF done # <<>> /\ done[Len(done)] # <<".", ".">>
                   THEN NormalizeOnto(SubSeq(done, 1, Len(done) - 1), Tail(rest))
                   ELSE NormalizeOnto(Append(done, Head(rest)), Tail(rest))
              ELSE NormalizeOnto(Append(done, Head(rest)), Tail(rest))

CreateSafePath(parts) == NormalizeOnto(<<>>, parts)

OutputDir == <<<<"out">>>>

TempDir == <<<<"tmp">>, <<"wix-export-">>>>

NoPath == <<>>

(* ------------------------------- posts --------------------------------- *)

\* One piece of a post's contentText: an image reference ![alt](target) or plain text
\* holding no image reference. The target is the URL, or a local path once rewritten.
ImgAlt(alt, u) == [kind |-> "img", url |-> u, alt |-> alt, body |-> <<>>, path |-> NoPath]

Img(u) == ImgAlt(<<"x">>, u)

TextOf(body) == [kind |-> "text", url |-> NoUrl, alt |-> <<>>, body |-> body, path |-> NoPath]

Text == TextOf(<<"t">>)

\* WixBlogPost: cover and coverAlt are media.wixMedia.image.url and .altText, content
\* is contentText; without media, cover is NoUrl.
Post(id, slug, cover, content) ==
    [ id |-> id, slug |-> slug, title |-> <<"T">>, excerpt |-> <<>>, url |-> <<>>,
      firstPublishedDate |-> "", lastPublishedDate |-> "", status |-> Absent,
      featured |-> FALSE, categoryIds |-> <<>>, hashtags |-> <<>>, minutesToRead |-> 1,
      cover |-> cover, coverAlt |-> <<>>, content |-> content ]

\* The sample posts: a cover that is also an inline image; a relative cover, a
\* repeated inline image and a data: image; a post without slug whose candidates
\* are an ftp cover, an unparsable inline URL and a valid one; a post without images.
PostCoverAndInline == Post(<<>>, <<"a">>, UrlA, <<Text, Img(UrlA)>>)

PostRepeatedInline ==
    Post(<<>>, <<"B", " ", "b">>, UrlRelative, <<Img(UrlA), Img(UrlData), Img(UrlA)>>)

PostInvalidUrls == Post(<<>>, <<>>, UrlFtp, <<Img(UrlBadHost), Img(UrlB)>>)

PostNoImages == Post(<<>>, <<"a">>, NoUrl, <<>>)

PostIds == << <<"1">>, <<"2">> >>

\* ids are unique: the position in the collection
WithIds(ps) == [i \in 1..Len(ps) |-> [ps[i] EXCEPT !.id = PostIds[i]]]

\* The post collections exportPosts is run on.
Collections ==
    { WithIds(<<PostCoverAndInline, PostRepeatedInline>>),
      WithIds(<<PostRepeatedInline, PostInvalidUrls>>),
      WithIds(<<PostInvalidUrls>>),
      WithIds(<<PostNoImages>>) }

\* post.slug || post.id
SlugOrId(post) == IF post.slug # <<>> THEN post.slug ELSE post.id

(* ---------------------- extractInlineImageUrls ------------------------- *)

RECURSIVE Dedupe(_, _)
Dedupe(seen, s) ==
    IF s = <<>> THEN <<>>
    ELSE IF Head(s) \in seen
         THEN Dedupe(seen, Tail(s))
         ELSE <<Head(s)>> \o Dedupe(seen \cup {Head(s)}, Tail(s))

\* The alt part of the extraction pattern, .*? : any text without a line break.
AltMatchesExtract(alt) == \A k \in 1..Len(alt) : alt[k] # Newline

RECURSIVE MatchedUrls(_)
MatchedUrls(content) ==
    IF content = <<>> THEN <<>>
    ELSE IF Head(content).kind = "img" /\ AltMatchesExtract(Head(content).alt)
              /\ MatchesInlinePattern(Head(content).url)
              /\ Head(content).url.scheme # "data"
         THEN <<Head(content).url>> \o MatchedUrls(Tail(content))
         ELSE MatchedUrls(Tail(content))

ExtractInlineImageUrlsNoDedupe(content) == MatchedUrls(content)

ExtractInlineImageUrls(content) == Dedupe({}, MatchedUrls(content))

(* --------------------------- task collection --------------------------- *)

Task(post, url, type) ==
    [ postId |-> post.id, postSlug |-> SanitizeFilename(SlugOrId(post)), url |-> url,
      type |-> type ]

CoverTasks(post) ==
    IF post.cover # NoUrl /\ IsValidImageUrl(post.cover)
    THEN <<Task(post, post.cover, "cover")>>
    ELSE <<>>

RECURSIVE InlineTasksOf(_, _)
InlineTasksOf(post, urls) ==
    IF urls = <<>> THEN <<>>
    ELSE (IF IsValidImageUrl(Head(urls)) THEN <<Task(post, Head(urls), "inline")>> ELSE <<>>)
         \o InlineTasksOf(post, Tail(urls))

InlineTasks(post) ==
    IF post.content # <<>> THEN InlineTasksOf(post, ExtractInlineImageUrls(post.content)) ELSE <<>>

RECURSIVE CollectImageDownloads(_)
CollectImageDownloads(ps) ==
    IF ps = <<>> THEN <<>>
    ELSE CoverTasks(Head(ps)) \o InlineTasks(Head(ps)) \o CollectImageDownloads(Tail(ps))

(* ------------------------------- state --------------------------------- *)

VARIABLES
    options,          \* ExportOptions given to the PostExporter constructor
    posts,            \* the post collection handed to exportPosts
    pc,               \* position of exportPosts: idle (not called yet), start, awaiting,
                      \* rewrite, export, report, zip, done, failed
    tasks,            \* imageDownloads with the state of each task's downloadSingleImage call
    queue,            \* p-limit: indices of the tasks not started yet, in submission order
    activeCount,      \* p-limit: number of tasks holding a slot
    downloadResults,  \* ImageDownloader.downloadResults, the ledger
    urlToLocalPath,   \* the mapping returned by downloadAllImages
    disk,             \* paths of the files written so far
    processedPosts,   \* result of processPostsWithLocalImages
    exportedFiles,    \* value exportPosts resolves with
    tempDirExists,    \* bundle mode: the staging directory is on disk
    written,          \* contents of the export and report files on disk, by path
    cli               \* WixBlogExportCLI.run: position, .env.wix, requests, log, exit code

vars ==
    << options, posts, pc, tasks, queue, activeCount, downloadResults, urlToLocalPath,
       disk, processedPosts, exportedFiles, tempDirExists, written, cli >>

Formats == {"json", "markdown", "csv", "all"}

\* process.exitCode while the process runs
Running == -1

\* PostExporter constructed and exportPosts called directly, as the tests do
NotRunByCli ==
    [ st |-> "none", envFile |-> <<>>, hasEnvFile |-> FALSE, requests |-> <<>>,
      log |-> <<>>, exitCode |-> Running ]

DefaultFilename == "wix-blog-export"

Init ==
    /\ options \in [ concurrency : 1..MaxConcurrency, retry : 1..DefaultRetry,
                     timeoutMs : {DefaultTimeoutMs}, downloadImages : BOOLEAN,
                     dryRun : BOOLEAN, bundleZip : BOOLEAN, format : Formats,
                     includeContent : {TRUE}, includeImages : {TRUE},
                     filename : {DefaultFilename} ]
    \* exportAsBundle never reads options.format
    /\ options.bundleZip => options.format = "all"
    \* the files are written after the last task has settled, whatever the order the
    \* tasks ran in: the formats vary where the tasks run one at a time
    /\ options.concurrency > 1 => options.format = "all"
    /\ posts \in Collections
    /\ pc = "start"
    /\ tasks = <<>>
    /\ queue = <<>>
    /\ activeCount = 0
    /\ downloadResults = <<>>
    /\ urlToLocalPath = <<>>
    /\ disk = {}
    /\ processedPosts = <<>>
    /\ exportedFiles = <<>>
    /\ tempDirExists = FALSE
    /\ written = <<>>
    /\ cli = NotRunByCli

(* ------------------------- downloadAllImages --------------------------- *)

SkipsDownloadOnlyFlag == ~options.downloadImages

SkipsDownload == ~options.downloadImages \/ options.dryRun

\* exportAsBundle always calls downloadAllImages, exportAsIndividualFiles only
\* when options.downloadImages is set.
CallsDownloader == options.bundleZip \/ options.downloadImages

ExportRoot == IF options.bundleZip THEN TempDir ELSE OutputDir

ImagesDir == CreateSafePath(ExportRoot \o <<<<"images">>>>)

NewResult(t) ==
    [ postId |-> t.postId, originalUrl |-> t.url, success |-> FALSE, localPath |-> NoPath,
      error |-> Absent ]

NewTaskState(t) ==
    [ postId |-> t.postId, postSlug |-> t.postSlug, url |-> t.url, type |-> t.type,
      st |-> "queued", attempt |-> 0, lastError |-> "", lastFailure |-> "",
      failures |-> 0, timerArmed |-> FALSE,
      deadlinePassed |-> FALSE, backoffMs |-> 0, fetches |-> 0, waits |-> <<>>,
      result |-> NewResult(t) ]

\* exportPosts up to the first suspension: the mode switch, the skip test of
\* downloadAllImages, the collection loop and the submission of every task to the limiter.
ExportPosts ==
    /\ pc = "start"
    /\ LET collected == IF CallsDownloader /\ ~SkipsDownload
                        THEN CollectImageDownloads(posts) ELSE <<>>
       IN /\ tasks' = [i \in 1..Len(collected) |-> NewTaskState(collected[i])]
          /\ queue' = [i \in 1..Len(collected) |-> i]
          /\ pc' = IF collected = <<>> THEN "rewrite" ELSE "awaiting"
    /\ tempDirExists' = options.bundleZip
    /\ UNCHANGED << cli, options, posts, activeCount, downloadResults, urlToLocalPath, disk,
                    processedPosts, exportedFiles, written >>

(* ----------------------------- p-limit --------------------------------- *)

CanStartOffByOne == activeCount <= options.concurrency

CanStart == activeCount < options.concurrency

\* One fetch(url, {signal}) call with its abort timer set to options.timeoutMs.
BeginAttempt(t) ==
    [t EXCEPT !.st = "connecting", !.attempt = t.attempt + 1, !.fetches = t.fetches + 1,
              !.timerArmed = TRUE, !.deadlinePassed = FALSE, !.backoffMs = 0]

\* The limiter runs the next queued function.
LimitStart ==
    /\ pc = "awaiting"
    /\ queue # <<>>
    /\ CanStart
    /\ tasks' = [tasks EXCEPT ![Head(queue)] = BeginAttempt(tasks[Head(queue)])]
    /\ queue' = Tail(queue)
    /\ activeCount' = activeCount + 1
    /\ UNCHANGED << cli, options, posts, pc, downloadResults, urlToLocalPath, disk,
                    processedPosts, exportedFiles, tempDirExists, written >>

(* ------------------------ downloadSingleImage -------------------------- *)

\* The bytes the remote server holds for an image URL.
ServedBytes(url) == IF url.host = "a" THEN "b1" ELSE "b2"

\* md5 of the content, first 8 hex digits
HashOf(bytes) == CASE bytes = "b1" -> "h1" [] bytes = "b2" -> "h2"

\* generateImageHash(url, buffer): the buffer is always given here
GenerateImageHash(url, bytes) == HashOf(bytes)

Prefix(type) == IF type = "cover" THEN "cover" ELSE "image"

Filename(t, bytes) ==
    << Prefix(t.type), "-", GenerateImageHash(t.url, bytes), GetFileExtensionFromUrl(t.url) >>

\* where fs.writeFileSync puts the image
LocalPath(t, bytes) ==
    CreateSafePath(CreateSafePath(ImagesDir \o <<t.postSlug>>) \o <<Filename(t, bytes)>>)

\* `images/${postSlug}/${filename}`
RelativePath(t, bytes) == << <<"images">>, t.postSlug, Filename(t, bytes) >>

BackoffDelayLinear(attempt) == attempt * BackoffUnitMs

\* Math.pow(2, attempt) * 1000
BackoffDelayMs(attempt) == (BackoffBase ^ attempt) * BackoffUnitMs

IsLastAttempt(t) == t.attempt = options.retry

\* The promise of downloadSingleImage resolves and the limiter frees the slot.
Settled(t, res) ==
    [t EXCEPT !.st = "settled", !.result = res, !.timerArmed = FALSE, !.backoffMs = 0,
              !.deadlinePassed = FALSE]

FailedFirstError(t, msg) ==
    IF IsLastAttempt(t)
    THEN Settled(t, [t.result EXCEPT !.error = IF t.lastError = "" THEN msg ELSE t.lastError])
    ELSE [t EXCEPT !.st = "backoff", !.lastError = IF t.lastError = "" THEN msg ELSE t.lastError,
                   !.timerArmed = FALSE, !.deadlinePassed = FALSE,
                   !.backoffMs = BackoffDelayMs(t.attempt)]

\* The catch block: remember the message, then either give up or arm the backoff timer.
Failed(t, msg) ==
    IF IsLastAttempt(t)
    THEN Settled([t EXCEPT !.lastError = msg], [t.result EXCEPT !.error = msg])
    ELSE [t EXCEPT !.st = "backoff", !.lastError = msg, !.timerArmed = FALSE,
                   !.deadlinePassed = FALSE, !.backoffMs = BackoffDelayMs(t.attempt)]

ReleasesSlotOnEveryFailure(t) == TRUE

\* The limiter frees the slot when the promise of downloadSingleImage settles: a
\* failed attempt ends the call only when it was the last one, the backoff wait
\* being awaited inside the call.
ReleasesSlot(t) == IsLastAttempt(t)

\* lastFailure and failures record, for the properties, the message of the latest
\* throw and the number of throws.
FailAttempt(i, msg) ==
    /\ tasks' = [tasks EXCEPT ![i] = [Failed(tasks[i], msg) EXCEPT
                                         !.lastFailure = msg,
                                         !.failures = tasks[i].failures + 1]]
    /\ activeCount' = IF ReleasesSlot(tasks[i]) THEN activeCount - 1 ELSE activeCount
    /\ UNCHANGED << cli, options, posts, pc, queue, downloadResults, urlToLocalPath, disk,
                    processedPosts, exportedFiles, tempDirExists, written >>

\* fetch resolves with an ok status: clearTimeout, then the body is read.
ResponseOk(i) ==
    /\ tasks[i].st = "connecting"
    /\ tasks' = [tasks EXCEPT ![i] = [tasks[i] EXCEPT !.st = "body", !.timerArmed = FALSE]]
    /\ UNCHANGED << cli, options, posts, pc, queue, activeCount, downloadResults, urlToLocalPath,
                    disk, processedPosts, exportedFiles, tempDirExists, written >>

\* fetch resolves with a non-success status: clearTimeout, throw `HTTP <status>`.
ResponseNotOk(i) ==
    /\ tasks[i].st = "connecting"
    /\ FailAttempt(i, "HTTP 500")

\* fetch or response.arrayBuffer() rejects with a network error.
NetworkError(i) ==
    /\ tasks[i].st \in {"connecting", "body"}
    /\ FailAttempt(i, "fetch failed")

\* options.timeoutMs have passed since the attempt began; the timer, when it is still
\* set, aborts the fetch.
DeadlineAborts(i) ==
    /\ tasks[i].st = "connecting"
    /\ tasks[i].timerArmed
    /\ FailAttempt(i, "aborted")

\* The same instant for an attempt whose timer was cleared: nothing runs.
DeadlinePasses(i) ==
    /\ tasks[i].st = "body"
    /\ ~tasks[i].timerArmed
    /\ ~tasks[i].deadlinePassed
    /\ tasks' = [tasks EXCEPT ![i].deadlinePassed = TRUE]
    /\ UNCHANGED << cli, options, posts, pc, queue, activeCount, downloadResults, urlToLocalPath,
                    disk, processedPosts, exportedFiles, tempDirExists, written >>

\* arrayBuffer() resolves with zero bytes.
BodyEmpty(i) ==
    /\ tasks[i].st = "body"
    /\ FailAttempt(i, "Empty response body")

Succeeded(t, bytes) ==
    Settled([t EXCEPT !.lastError = "", !.lastFailure = ""],
            [t.result EXCEPT !.success = TRUE, !.localPath = RelativePath(t, bytes)])

\* arrayBuffer() resolves with the image: directory, file name, write, result.
BodyReceived(i) ==
    /\ tasks[i].st = "body"
    /\ disk' = disk \cup {LocalPath(tasks[i], ServedBytes(tasks[i].url))}
    /\ tasks' = [tasks EXCEPT ![i] = Succeeded(tasks[i], ServedBytes(tasks[i].url))]
    /\ activeCount' = activeCount - 1
    /\ UNCHANGED << cli, options, posts, pc, queue, downloadResults, urlToLocalPath,
                    processedPosts, exportedFiles, tempDirExists, written >>

\* The backoff timer fires and the loop starts the next attempt.
BackoffElapsed(i) ==
    /\ tasks[i].st = "backoff"
    /\ tasks' = [tasks EXCEPT ![i] =
                    BeginAttempt([tasks[i] EXCEPT
                                     !.waits = Append(tasks[i].waits, tasks[i].backoffMs)])]
    /\ UNCHANGED << cli, options, posts, pc, queue, activeCount, downloadResults, urlToLocalPath,
                    disk, processedPosts, exportedFiles, tempDirExists, written >>

(* ------------------- downloadAllImages: the results -------------------- *)

AllSettledAnyTime == TRUE

\* Promise.all in place of Promise.allSettled, with failures rejecting
AwaitedResultsFailFast(ts) ==
    [ threw |-> \E i \in 1..Len(ts) : ~ts[i].result.success,
      results |-> [i \in 1..Len(ts) |-> ts[i].result] ]

\* await Promise.allSettled(downloadPromises): never throws, and every promise is
\* fulfilled because downloadSingleImage catches whatever an attempt throws.
AwaitedResults(ts) == [ threw |-> FALSE, results |-> [i \in 1..Len(ts) |-> ts[i].result] ]

\* Promise.allSettled(downloadPromises) resolves
AllSettled == \A i \in 1..Len(tasks) : tasks[i].st = "settled"

MapSet(m, k, v) == [x \in (DOMAIN m) \cup {k} |-> IF x = k THEN v ELSE m[x]]

MapGet(m, k) == IF k \in DOMAIN m THEN m[k] ELSE NoPath

RECURSIVE BuildMappingEveryResult(_, _)
BuildMappingEveryResult(m, results) ==
    IF results = <<>> THEN m
    ELSE BuildMappingEveryResult(
            MapSet(m, Head(results).originalUrl, Head(results).localPath), Tail(results))

RECURSIVE BuildMapping(_, _)
BuildMapping(m, results) ==
    IF results = <<>> THEN m
    ELSE BuildMapping(
            IF Head(results).success /\ Head(results).localPath # NoPath
            THEN MapSet(m, Head(results).originalUrl, Head(results).localPath)
            ELSE m,
            Tail(results))

InTempDir(path) == Len(path) >= Len(TempDir) /\ SubSeq(path, 1, Len(TempDir)) = TempDir

\* ZipBundler.cleanupTempDir in the finally block of exportAsBundle
CleanedUp(files) == { f \in files : ~InTempDir(f) }

\* the files that survive fs.rmSync(tempDir, { recursive: true })
KeptFiles(w) == [f \in { g \in DOMAIN w : ~InTempDir(g) } |-> w[f]]

\* The loop over the settled results, then the return of the mapping. An exception
\* would leave exportPosts rejected (through the finally block in bundle mode).
ProcessResults ==
    /\ pc = "awaiting"
    /\ AllSettled
    /\ LET awaited == AwaitedResults(tasks)
       IN IF awaited.threw
          THEN /\ pc' = "failed"
               /\ disk' = IF options.bundleZip THEN CleanedUp(disk) ELSE disk
               /\ tempDirExists' = FALSE
               /\ written' = IF options.bundleZip THEN KeptFiles(written) ELSE written
               /\ UNCHANGED << downloadResults, urlToLocalPath >>
          ELSE /\ pc' = "rewrite"
               /\ downloadResults' = downloadResults \o awaited.results
               /\ urlToLocalPath' = BuildMapping(<<>>, awaited.results)
               /\ UNCHANGED << disk, tempDirExists, written >>
    /\ UNCHANGED << cli, options, posts, tasks, queue, activeCount, processedPosts,
                    exportedFiles >>

(* ---------------------- processPostsWithLocalImages -------------------- *)

MappedPathsUnfiltered(m, urls) == [k \in 1..Len(urls) |-> MapGet(m, urls[k])]

RECURSIVE MappedPaths(_, _)
MappedPaths(m, urls) ==
    IF urls = <<>> THEN <<>>
    ELSE (IF MapGet(m, Head(urls)) # NoPath THEN <<MapGet(m, Head(urls))>> ELSE <<>>)
         \o MappedPaths(m, Tail(urls))

\* { ...post } with the two local fields; a field the code leaves undefined is NoPath
\* or <<>> here, values the code never stores (it tests localPath and the length).
ProcessPost(post, m) ==
    [ coverImageLocalPath |-> IF post.cover # NoUrl THEN MapGet(m, post.cover) ELSE NoPath,
      localImagePaths |-> IF post.content # <<>>
                          THEN MappedPaths(m, ExtractInlineImageUrls(post.content))
                          ELSE <<>> ] @@ post

ProcessPostsWithLocalImages ==
    /\ pc = "rewrite"
    /\ processedPosts' = [i \in 1..Len(posts) |-> ProcessPost(posts[i], urlToLocalPath)]
    /\ pc' = "export"
    /\ UNCHANGED << cli, options, posts, tasks, queue, activeCount, downloadResults,
                    urlToLocalPath, disk, exportedFiles, tempDirExists, written >>

(* --------------------------- text helpers ------------------------------ *)

\* Array.prototype.join for an array of strings
RECURSIVE Join(_, _)
Join(parts, sep) ==
    IF parts = <<>> THEN <<>>
    ELSE IF Len(parts) = 1 THEN Head(parts)
         ELSE Head(parts) \o <<sep>> \o Join(Tail(parts), sep)

\* String.prototype.replace(/c/g, to) for a one-character pattern
RECURSIVE ReplaceAll(_, _, _)
ReplaceAll(str, c, to) ==
    IF str = <<>> THEN <<>>
    ELSE (IF Head(str) = c THEN to ELSE <<Head(str)>>) \o ReplaceAll(Tail(str), c, to)

\* the text of a local path
PathText(path) == Join(path, "/")

\* the text of one piece of contentText
PieceText(p) ==
    IF p.kind = "text" THEN p.body
    ELSE <<"![">> \o p.alt \o <<"](">>
         \o (IF p.path # NoPath THEN PathText(p.path) ELSE UrlText(p.url)) \o <<")">>

RECURSIVE ContentText(_)
ContentText(content) ==
    IF content = <<>> THEN <<>> ELSE PieceText(Head(content)) \o ContentText(Tail(content))

(* ---------------------- rewriteMarkdownImageUrls ----------------------- *)

\* The alt part of the rewrite pattern, ([^\]]*) : any text without a closing bracket.
AltMatchesRewrite(alt) == \A k \in 1..Len(alt) : alt[k] # "]"

RewritePieceAlways(p, m) ==
    IF p.kind = "img" /\ AltMatchesRewrite(p.alt) /\ MatchesInlinePattern(p.url)
    THEN [p EXCEPT !.url = NoUrl, !.path = <<<<"images">>>>]
    ELSE p

\* The replacement callback on one match; everything else is copied.
RewritePiece(p, m) ==
    IF /\ p.kind = "img" /\ AltMatchesRewrite(p.alt) /\ MatchesInlinePattern(p.url)
       /\ MapGet(m, p.url) # NoPath
    THEN [p EXCEPT !.url = NoUrl, !.path = MapGet(m, p.url)]
    ELSE p

RewriteMarkdownImageUrls(content, m) ==
    [k \in 1..Len(content) |-> RewritePiece(content[k], m)]

(* --------------------------- Markdown renderers ------------------------ *)

\* One `markdown += ...` statement: a label and the text, or the content pieces, it adds.
Line(label, text) == [label |-> label, text |-> text, content |-> <<>>]

ContentLine(label, content) == [label |-> label, text |-> <<>>, content |-> content]

\* post.status || fallback
StatusOr(post, fallback) == IF post.status # Absent THEN post.status ELSE fallback

\* new Date(d).toLocaleDateString()
LocaleDate(d) == <<"localeDate", d>>

HashTags(tags) == [k \in 1..Len(tags) |-> <<"#">> \o tags[k]]

\* localPath || imageUrl
ImagePath(post, m) ==
    IF MapGet(m, post.cover) # NoPath THEN PathText(MapGet(m, post.cover))
    ELSE UrlText(post.cover)

\* the content as the Markdown renderers show it
RenderedContent(post, m) ==
    IF m # <<>> THEN RewriteMarkdownImageUrls(post.content, m) ELSE post.content

FormatPostAsMarkdownEveryPart(post, m) ==
    << Line("##", post.title),
       Line("Status", <<StatusOr(post, "Published")>>),
       Line("Slug", post.slug),
       Line("Published", LocaleDate(post.firstPublishedDate)),
       Line("Reading Time", <<ToString(post.minutesToRead)>>),
       Line("Featured", <<IF post.featured THEN "Yes" ELSE "No">>),
       Line("Tags", Join(HashTags(post.hashtags), " ")),
       Line("Cover Image",
            <<"![">> \o post.title \o <<"](">> \o ImagePath(post, m) \o <<")">>),
       Line("### Excerpt",
            IF post.excerpt # <<>> THEN post.excerpt ELSE <<"No excerpt available">>),
       ContentLine("### Content", RenderedContent(post, m)),
       Line("---", <<>>) >>

FormatPostAsMarkdown(post, m) ==
    << Line("##", post.title),
       Line("Status", <<StatusOr(post, "Published")>>),
       Line("Slug", post.slug) >>
    \o (IF post.firstPublishedDate # ""
        THEN <<Line("Published", LocaleDate(post.firstPublishedDate))>> ELSE <<>>)
    \o <<Line("Reading Time", <<ToString(post.minutesToRead)>>)>>
    \o (IF post.featured THEN <<Line("Featured", <<"Yes">>)>> ELSE <<>>)
    \o (IF post.hashtags # <<>>
        THEN <<Line("Tags", Join(HashTags(post.hashtags), " "))>> ELSE <<>>)
    \o (IF options.includeImages /\ post.cover # NoUrl
        THEN <<Line("Cover Image",
                    <<"![">> \o post.title \o <<"](">> \o ImagePath(post, m) \o <<")">>)>>
        ELSE <<>>)
    \o <<Line("### Excerpt",
              IF post.excerpt # <<>> THEN post.excerpt ELSE <<"No excerpt available">>)>>
    \o (IF options.includeContent /\ post.content # <<>>
        THEN <<ContentLine("### Content", RenderedContent(post, m))>> ELSE <<>>)
    \o <<Line("---", <<>>)>>

FormatSinglePostAsMarkdown(post, m) ==
    <<Line("#", post.title)>>
    \o (IF post.url # <<>> THEN <<Line("Original URL", post.url)>> ELSE <<>>)
    \o << Line("Slug", post.slug), Line("Status", <<StatusOr(post, "Published")>>) >>
    \o (IF post.firstPublishedDate # ""
        THEN <<Line("Published", LocaleDate(post.firstPublishedDate))>> ELSE <<>>)
    \o (IF post.lastPublishedDate # "" /\ post.lastPublishedDate # post.firstPublishedDate
        THEN <<Line("Updated", LocaleDate(post.lastPublishedDate))>> ELSE <<>>)
    \o <<Line("Reading Time", <<ToString(post.minutesToRead)>>)>>
    \o (IF post.featured THEN <<Line("Featured", <<"Yes">>)>> ELSE <<>>)
    \o (IF post.hashtags # <<>>
        THEN <<Line("Tags", Join(HashTags(post.hashtags), " "))>> ELSE <<>>)
    \o (IF post.categoryIds # <<>>
        THEN <<Line("Categories", Join(post.categoryIds, ", "))>> ELSE <<>>)
    \o <<Line("---", <<>>)>>
    \o (IF post.cover # NoUrl
        THEN <<Line("Cover",
                    <<"![">> \o (IF post.coverAlt # <<>> THEN post.coverAlt ELSE post.title)
                    \o <<"](">> \o ImagePath(post, m) \o <<")">>)>>
        ELSE <<>>)
    \o (IF post.excerpt # <<>> THEN <<Line("## Excerpt", post.excerpt)>> ELSE <<>>)
    \o (IF options.includeContent /\ post.content # <<>>
        THEN <<ContentLine("## Content", RenderedContent(post, m))>> ELSE <<>>)

IsPublishedOnlyExplicit(p) == p.status = "PUBLISHED"

\* p.status === 'PUBLISHED' || !p.status
IsPublished(p) == p.status = "PUBLISHED" \/ p.status = Absent

IsDraft(p) == p.status = "DRAFT"

IsScheduled(p) == p.status = "SCHEDULED"

CategorizePosts(ps) ==
    [ published |-> SelectSeq(ps, IsPublished), drafts |-> SelectSeq(ps, IsDraft),
      scheduled |-> SelectSeq(ps, IsScheduled) ]

GenerateMarkdownHeader(categorized) ==
    << Line("# Wix Blog Export", <<>>),
       Line("Export Date", <<"now">>),
       Line("Summary", <<>>),
       Line("- Published", <<ToString(Len(categorized.published))>>),
       Line("- Drafts", <<ToString(Len(categorized.drafts))>>),
       Line("- Scheduled", <<ToString(Len(categorized.scheduled))>>),
       Line("- Total", <<ToString(Len(categorized.published) + Len(categorized.drafts)
                                + Len(categorized.scheduled))>>),
       Line("---", <<>>) >>

RECURSIVE FormatAll(_, _)
FormatAll(ps, m) ==
    IF ps = <<>> THEN <<>> ELSE FormatPostAsMarkdown(Head(ps), m) \o FormatAll(Tail(ps), m)

SectionAlways(title, group, m) ==
    <<Line(title, <<ToString(Len(group))>>)>> \o FormatAll(group, m)

\* one status section of exportMarkdown
Section(title, group, m) ==
    IF Len(group) > 0
    THEN <<Line(title, <<ToString(Len(group))>>)>> \o FormatAll(group, m)
    ELSE <<>>

ExportMarkdown(ps, m) ==
    GenerateMarkdownHeader(CategorizePosts(ps))
    \o Section("# Published Posts", CategorizePosts(ps).published, m)
    \o Section("# Draft Posts", CategorizePosts(ps).drafts, m)
    \o Section("# Scheduled Posts", CategorizePosts(ps).scheduled, m)

(* ------------------------------ exportJSON ----------------------------- *)

\* JSON.stringify leaves out the properties that are undefined
JsonOmits(post) ==
    (IF post.status = Absent THEN {"status"} ELSE {})
    \cup (IF post.coverImageLocalPath = NoPath THEN {"coverImageLocalPath"} ELSE {})
    \cup (IF post.localImagePaths = <<>> THEN {"localImagePaths"} ELSE {})

JsonOf(post) == [f \in (DOMAIN post) \ JsonOmits(post) |-> post[f]]

ExportJSON(ps) == [i \in 1..Len(ps) |-> JsonOf(ps[i])]

(* ------------------------------ exportCSV ------------------------------ *)

\* .replace(/"/g, '""')
DoubleQuotes(str) == ReplaceAll(str, Quote, <<Quote, Quote>>)

\* .replace(/\n/g, '\\n')
EscapeNewlines(str) == ReplaceAll(str, Newline, <<"\\", "n">>)

\* `"${value}"`
Quoted(str) == <<Quote>> \o str \o <<Quote>>

CsvHeaders ==
    << <<"id">>, <<"slug">>, <<"title">>, <<"status">>, <<"firstPublishedDate">>,
       <<"lastPublishedDate">>, <<"featured">>, <<"url">>, <<"tags">>, <<"categoryIds">>,
       <<"readingTime">>, <<"coverImageUrl">>, <<"coverImageLocalPath">>,
       <<"contentLength">>, <<"excerptLength">> >>
    \o (IF options.includeContent THEN << <<"content">> >> ELSE <<>>)

CsvRow(post) ==
    << Quoted(post.id),
       Quoted(post.slug),
       Quoted(DoubleQuotes(post.title)),
       Quoted(<<StatusOr(post, "PUBLISHED")>>),
       Quoted(<<post.firstPublishedDate>>),
       Quoted(<<post.lastPublishedDate>>),
       Quoted(<<IF post.featured THEN "true" ELSE "false">>),
       Quoted(post.url),
       Quoted(Join(post.hashtags, "|")),
       Quoted(Join(post.categoryIds, "|")),
       Quoted(<<ToString(post.minutesToRead)>>),
       Quoted(IF post.cover # NoUrl THEN UrlText(post.cover) ELSE <<>>),
       Quoted(PathText(post.coverImageLocalPath)),
       Quoted(<<ToString(Len(ContentText(post.content)))>>),
       Quoted(<<ToString(Len(post.excerpt))>>) >>
    \o (IF options.includeContent
        THEN <<Quoted(EscapeNewlines(DoubleQuotes(ContentText(post.content))))>>
        ELSE <<>>)

RECURSIVE CsvRows(_)
CsvRows(ps) ==
    IF ps = <<>> THEN <<>>
    ELSE Join(CsvRow(Head(ps)), ",") \o <<Newline>> \o CsvRows(Tail(ps))

ExportCSV(ps) == Join(CsvHeaders, ",") \o <<Newline>> \o CsvRows(ps)

(* ------------------------------- reports ------------------------------- *)

\* p.status === 'PUBLISHED' || !p.status
ReportIsPublished(p) == p.status = "PUBLISHED" \/ p.status = Absent

ReportIsDraft(p) == p.status = "DRAFT"

ReportIsScheduled(p) == p.status = "SCHEDULED"

IsSuccess(r) == r.success

IsFailure(r) == ~r.success

\* r.error || 'Unknown error'
Failure(r) ==
    [ postId |-> r.postId, url |-> r.originalUrl,
      error |-> IF r.error # Absent /\ r.error # "" THEN r.error ELSE "Unknown error" ]

FailuresOf(results) ==
    [k \in 1..Len(SelectSeq(results, IsFailure)) |-> Failure(SelectSeq(results, IsFailure)[k])]

\* the hashtags of all posts in the order the two forEach loops visit them
RECURSIVE AllHashtags(_)
AllHashtags(ps) ==
    IF ps = <<>> THEN <<>> ELSE Head(ps).hashtags \o AllHashtags(Tail(ps))

Occurrences(tag, tags) == Cardinality({ k \in 1..Len(tags) : tags[k] = tag })

\* Array.from(tagCounts.entries()): a Map lists its keys in insertion order
TagCounts(ps) ==
    [k \in 1..Len(Dedupe({}, AllHashtags(ps))) |->
        [ tag |-> Dedupe({}, AllHashtags(ps))[k],
          count |-> Occurrences(Dedupe({}, AllHashtags(ps))[k], AllHashtags(ps)) ]]

RECURSIVE InsertByCountBeforeTies(_, _)
InsertByCountBeforeTies(sorted, e) ==
    IF sorted = <<>> THEN <<e>>
    ELSE IF Head(sorted).count > e.count
         THEN <<Head(sorted)>> \o InsertByCountBeforeTies(Tail(sorted), e)
         ELSE <<e>> \o sorted

\* the place of e among entries sorted already: behind every entry whose count is
\* not smaller (Array.prototype.sort is stable)
RECURSIVE InsertByCount(_, _)
InsertByCount(sorted, e) ==
    IF sorted = <<>> THEN <<e>>
    ELSE IF Head(sorted).count >= e.count
         THEN <<Head(sorted)>> \o InsertByCount(Tail(sorted), e)
         ELSE <<e>> \o sorted

\* .sort((a, b) => b[1] - a[1])
RECURSIVE SortByCount(_)
SortByCount(entries) ==
    IF entries = <<>> THEN <<>>
    ELSE InsertByCount(SortByCount(SubSeq(entries, 1, Len(entries) - 1)),
                       entries[Len(entries)])

\* .slice(0, 10)
TagsTop10(ps) ==
    SubSeq(SortByCount(TagCounts(ps)), 1,
           IF Len(TagCounts(ps)) < TopTagsLimit THEN Len(TagCounts(ps)) ELSE TopTagsLimit)

GenerateSummaryReport(ps, customer, imageResults) ==
    [ customer |-> customer,
      counts |-> [ total |-> Len(ps),
                   published |-> Len(SelectSeq(ps, ReportIsPublished)),
                   draft |-> Len(SelectSeq(ps, ReportIsDraft)),
                   scheduled |-> Len(SelectSeq(ps, ReportIsScheduled)) ],
      images |-> [ attempted |-> Len(imageResults),
                   downloaded |-> Len(SelectSeq(imageResults, IsSuccess)),
                   failed |-> Len(SelectSeq(imageResults, IsFailure)) ],
      tagsTop10 |-> TagsTop10(ps),
      failures |-> [ imageDownloads |-> FailuresOf(imageResults) ] ]

GetDownloadStatsFailedAll ==
    [ attempted |-> Len(downloadResults),
      downloaded |-> Len(SelectSeq(downloadResults, IsSuccess)),
      failed |-> Len(downloadResults) ]

GetDownloadStats ==
    [ attempted |-> Len(downloadResults),
      downloaded |-> Len(SelectSeq(downloadResults, IsSuccess)),
      failed |-> Len(downloadResults) - Len(SelectSeq(downloadResults, IsSuccess)) ]

GetFailedDownloads == FailuresOf(downloadResults)

(* ------------------------------- files --------------------------------- *)

\* What fs.writeFileSync stored: the serialised posts, the Markdown lines, the CSV
\* text, the report, or the entries of the archive.
EmptyFile(kind) ==
    [ kind |-> kind, json |-> <<>>, lines |-> <<>>, text |-> <<>>, report |-> <<>>,
      entries |-> {} ]

JsonFile(ps) == [EmptyFile("json") EXCEPT !.json = ExportJSON(ps)]

MarkdownFile(lines) == [EmptyFile("markdown") EXCEPT !.lines = lines]

CsvFile(ps) == [EmptyFile("csv") EXCEPT !.text = ExportCSV(ps)]

ReportFile(kind, report) == [EmptyFile(kind) EXCEPT !.report = report]

(* ------------------------------ flat mode ------------------------------ *)

\* this.options.filename || 'wix-blog-export'
BaseFilename == IF options.filename # "" THEN options.filename ELSE "wix-blog-export"

Timestamp == "TS"

FlatName(ext) == << BaseFilename, "-", Timestamp, ext >>

SelectedExtsEvery == <<".json", ".md", ".csv">>

SelectedExts ==
    (IF options.format \in {"all", "json"} THEN <<".json">> ELSE <<>>)
    \o (IF options.format \in {"all", "markdown"} THEN <<".md">> ELSE <<>>)
    \o (IF options.format \in {"all", "csv"} THEN <<".csv">> ELSE <<>>)

FlatPath(ext) == CreateSafePath(OutputDir \o <<FlatName(ext)>>)

FlatContent(ext) ==
    CASE ext = ".json" -> JsonFile(processedPosts)
      [] ext = ".md" -> MarkdownFile(ExportMarkdown(processedPosts, urlToLocalPath))
      [] ext = ".csv" -> CsvFile(processedPosts)

\* exportAsIndividualFiles after the rewrite: exportJSON, exportMarkdown, exportCSV
ExportAsIndividualFiles ==
    /\ pc = "export"
    /\ ~options.bundleZip
    /\ disk' = disk \cup { FlatPath(SelectedExts[k]) : k \in 1..Len(SelectedExts) }
    /\ written' = [f \in { FlatPath(SelectedExts[k]) : k \in 1..Len(SelectedExts) } |->
                      FlatContent(SelectedExts[CHOOSE k \in 1..Len(SelectedExts) :
                                                  FlatPath(SelectedExts[k]) = f])] @@ written
    /\ exportedFiles' = [k \in 1..Len(SelectedExts) |-> FlatName(SelectedExts[k])]
    /\ pc' = "done"
    /\ UNCHANGED << cli, options, posts, tasks, queue, activeCount, downloadResults,
                    urlToLocalPath, processedPosts, tempDirExists >>

(* ----------------------------- bundle mode ----------------------------- *)

MarkdownDir == CreateSafePath(TempDir \o << <<"posts">>, <<"markdown">> >>)

JsonDir == CreateSafePath(TempDir \o << <<"posts">>, <<"json">> >>)

CsvDir == CreateSafePath(TempDir \o << <<"posts">>, <<"csv">> >>)

ReportsDir == CreateSafePath(TempDir \o << <<"reports">> >>)

PostMarkdownPath(post) ==
    CreateSafePath(MarkdownDir \o << SanitizeFilename(SlugOrId(post)) \o <<".md">> >>)

PostsJsonPath == CreateSafePath(JsonDir \o << <<"posts.json">> >>)

PostsCsvPath == CreateSafePath(CsvDir \o << <<"posts.csv">> >>)

StructuredFiles ==
    { PostMarkdownPath(processedPosts[i]) : i \in 1..Len(processedPosts) }
    \cup { PostsJsonPath, PostsCsvPath }

\* exportIndividualMarkdownFiles writes the posts in order: a later post with the
\* same file name overwrites the file of an earlier one.
LastWriter(f) ==
    CHOOSE i \in 1..Len(processedPosts) :
       /\ PostMarkdownPath(processedPosts[i]) = f
       /\ \A j \in (i + 1)..Len(processedPosts) : PostMarkdownPath(processedPosts[j]) # f

StructuredContent(f) ==
    IF f = PostsJsonPath THEN JsonFile(processedPosts)
    ELSE IF f = PostsCsvPath THEN CsvFile(processedPosts)
    ELSE MarkdownFile(FormatSinglePostAsMarkdown(processedPosts[LastWriter(f)],
                                                   urlToLocalPath))

SummaryJsonPath == CreateSafePath(ReportsDir \o << <<"summary.json">> >>)

SummaryMdPath == CreateSafePath(ReportsDir \o << <<"summary.md">> >>)

ReadmePath == CreateSafePath(TempDir \o << <<"README-DELIVERY.md">> >>)

ReportFiles == { SummaryJsonPath, SummaryMdPath, ReadmePath }

\* this.options.customer || 'unknown'
Customer == "unknown"

ReportContent(f) ==
    ReportFile(IF f = SummaryJsonPath THEN "report-json"
               ELSE IF f = SummaryMdPath THEN "report-markdown" ELSE "readme",
               GenerateSummaryReport(processedPosts, Customer, downloadResults))

ZipPath == CreateSafePath(OutputDir \o << <<"wix-export-unknown", "-", Timestamp, ".zip">> >>)

CleanupRunsOnReturn(threw) == ~threw

\* try { ... } finally { ZipBundler.cleanupTempDir(tempDir) }: the finally block runs
\* whether the try block returned or threw.
CleanupRuns(threw) == TRUE

\* the files on disk when exportAsBundle has returned or thrown
AfterTry(files, threw) == IF CleanupRuns(threw) THEN CleanedUp(files) ELSE files

AfterTryContents(w, threw) == IF CleanupRuns(threw) THEN KeptFiles(w) ELSE w

\* exportToStructuredDirectories
ExportToStructuredDirectories ==
    /\ pc = "export"
    /\ options.bundleZip
    /\ disk' = disk \cup StructuredFiles
    /\ written' = [f \in StructuredFiles |-> StructuredContent(f)] @@ written
    /\ pc' = "report"
    /\ UNCHANGED << cli, options, posts, tasks, queue, activeCount, downloadResults,
                    urlToLocalPath, processedPosts, exportedFiles, tempDirExists >>

\* generateSummaryReport and saveReports
SaveReports ==
    /\ pc = "report"
    /\ disk' = disk \cup ReportFiles
    /\ written' = [f \in ReportFiles |-> ReportContent(f)] @@ written
    /\ pc' = "zip"
    /\ UNCHANGED << cli, options, posts, tasks, queue, activeCount, downloadResults,
                    urlToLocalPath, processedPosts, exportedFiles, tempDirExists >>

\* createZipBundle resolves with the archive path
ZipCreated ==
    /\ pc = "zip"
    /\ disk' = AfterTry(disk \cup {ZipPath}, FALSE)
    /\ written' = AfterTryContents((ZipPath :> [EmptyFile("zip") EXCEPT !.entries = disk])
                                   @@ written, FALSE)
    /\ tempDirExists' = ~CleanupRuns(FALSE)
    /\ exportedFiles' = <<ZipPath>>
    /\ pc' = "done"
    /\ UNCHANGED << cli, options, posts, tasks, queue, activeCount, downloadResults,
                    urlToLocalPath, processedPosts >>

\* the archiver reports an error: createZipBundle rejects and exportAsBundle throws
ZipFailed ==
    /\ pc = "zip"
    /\ disk' = AfterTry(disk, TRUE)
    /\ written' = AfterTryContents(written, TRUE)
    /\ tempDirExists' = ~CleanupRuns(TRUE)
    /\ pc' = "failed"
    /\ UNCHANGED << cli, options, posts, tasks, queue, activeCount, downloadResults,
                    urlToLocalPath, processedPosts, exportedFiles >>

(* --------------------------- specification ----------------------------- *)

Next ==
    \/ ExportPosts
    \/ LimitStart
    \/ \E i \in 1..Len(tasks) : ResponseOk(i)
    \/ \E i \in 1..Len(tasks) : ResponseNotOk(i)
    \/ \E i \in 1..Len(tasks) : NetworkError(i)
    \/ \E i \in 1..Len(tasks) : DeadlineAborts(i)
    \/ \E i \in 1..Len(tasks) : DeadlinePasses(i)
    \/ \E i \in 1..Len(tasks) : BodyEmpty(i)
    \/ \E i \in 1..Len(tasks) : BodyReceived(i)
    \/ \E i \in 1..Len(tasks) : BackoffElapsed(i)
    \/ ProcessResults
    \/ ProcessPostsWithLocalImages
    \/ ExportAsIndividualFiles
    \/ ExportToStructuredDirectories
    \/ SaveReports
    \/ ZipCreated
    \/ ZipFailed

Spec == Init /\ [][Next]_vars

TypeOK ==
    /\ pc \in {"idle", "start", "awaiting", "rewrite", "export", "report", "zip", "done",
             "failed"}
    /\ activeCount \in 0..Len(tasks)
    /\ \A i \in 1..Len(tasks) :
         tasks[i].st \in {"queued", "connecting", "body", "backoff", "settled"}

(* ------------------------------ scheduling ----------------------------- *)

\* the largest number of download tasks a collection gives
MaxTasks ==
    CHOOSE n \in 0..8 :
       /\ \E ps \in Collections : Len(CollectImageDownloads(ps)) = n
       /\ \A ps \in Collections : Len(CollectImageDownloads(ps)) <= n

\* What the remote end owes a connection attempt: a response, an error, or silence
\* until the abort timer of the attempt fires.
ConnectionEnds(i) ==
    /\ i \in DOMAIN tasks
    /\ tasks[i].st = "connecting"
    /\ ResponseOk(i) \/ ResponseNotOk(i) \/ NetworkError(i) \/ DeadlineAborts(i)

\* Time passes: options.timeoutMs after the start of an attempt its deadline is reached.
DeadlineReached(i) ==
    /\ i \in DOMAIN tasks
    /\ DeadlinePasses(i)

\* A timer set with setTimeout fires.
TimerFires(i) ==
    /\ i \in DOMAIN tasks
    /\ BackoffElapsed(i)

\* The event loop runs every continuation that is ready and every timer that is due;
\* each connection attempt ends or reaches its deadline. Nothing obliges the remote
\* end to finish or to break off a response body it has begun to send.
Fairness ==
    /\ WF_vars(ExportPosts)
    /\ WF_vars(LimitStart)
    /\ WF_vars(ProcessResults)
    /\ \A i \in 1..MaxTasks :
          /\ WF_vars(ConnectionEnds(i))
          /\ WF_vars(DeadlineReached(i))
          /\ WF_vars(TimerFires(i))

LiveSpec == Init /\ [][Next]_vars /\ Fairness

(* ------------------- the export stage on its own ---------------------- *)

\* Posts for the renderers: an unset status, a title with double quotes, a text
\* with a line break and a quote, an alt text with a closing bracket; a draft
\* without media or content; a scheduled post with a quote in a tag, a line break
\* in the title and in an alt text, and an ftp reference; a published post whose
\* slug differs from another one by case only.
PostQuotedTitle ==
    [ Post(<<>>, <<"a">>, UrlA,
           << TextOf(<<"l1", Newline, "l2", Quote>>), Img(UrlA),
              ImgAlt(<<"y", "]", "z">>, UrlB) >>)
      EXCEPT !.title = <<"My ", Quote, "Great", Quote, " Post">>,
             !.hashtags = << <<"test">>, <<"blog">> >>,
             !.firstPublishedDate = "2024-01-01", !.lastPublishedDate = "2024-02-02",
             !.excerpt = <<"e">> ]

PostDraft ==
    [ Post(<<>>, <<"b">>, NoUrl, <<>>) EXCEPT !.title = <<"D">>, !.status = "DRAFT" ]

PostScheduledQuotedTag ==
    [ Post(<<>>, <<"a", " ", "b">>, UrlB,
           << ImgAlt(<<"l1", Newline, "l2">>, UrlA), Img(UrlFtp) >>)
      EXCEPT !.title = <<"x", Newline, "y">>, !.status = "SCHEDULED",
             !.hashtags = << <<"q", Quote, "t">> >>, !.featured = TRUE,
             !.firstPublishedDate = "2024-01-01", !.lastPublishedDate = "2024-01-01" ]

PostPublished ==
    [ Post(<<>>, <<"A">>, UrlB, << Img(UrlB), Text >>)
      EXCEPT !.title = <<"P">>, !.status = "PUBLISHED", !.url = <<"https://site/p">>,
             !.categoryIds = << <<"c1">>, <<"c2">> >>, !.coverAlt = <<"alt">> ]

ExportSamples == { PostQuotedTitle, PostDraft, PostScheduledQuotedTag, PostPublished }

\* ids are unique: the position in the collection, in unary
ExportPostId(i) == [k \in 1..i |-> "1"]

ExportCollections ==
    { [i \in 1..Len(ps) |-> [ps[i] EXCEPT !.id = ExportPostId(i)]] :
         ps \in UNION { [1..n -> ExportSamples] : n \in 0..MaxExportPosts } }

\* The state of a task whose only attempt has ended, well or with a 500.
SettledTask(t, ok) ==
    IF ok
    THEN Succeeded(BeginAttempt(NewTaskState(t)), ServedBytes(t.url))
    ELSE [Failed(BeginAttempt(NewTaskState(t)), "HTTP 500") EXCEPT
             !.lastFailure = "HTTP 500", !.failures = 1]

\* The states in which downloadAllImages returns when every task runs one attempt
\* (retry = 1) and each server either serves its images or answers 500.
InitExport ==
    /\ options \in [ concurrency : {1}, retry : {1}, timeoutMs : {DefaultTimeoutMs},
                     downloadImages : BOOLEAN, dryRun : {FALSE}, bundleZip : BOOLEAN,
                     format : Formats, includeContent : BOOLEAN, includeImages : BOOLEAN,
                     filename : {"", "my-blog"} ]
    \* exportAsBundle reads neither format nor filename nor includeImages
    /\ options.bundleZip =>
          /\ options.format = "all"
          /\ options.filename = ""
          /\ options.includeImages
    /\ posts \in ExportCollections
    /\ \E collected \in { IF CallsDownloader /\ ~SkipsDownload
                           THEN CollectImageDownloads(posts) ELSE <<>> } :
          \E okHosts \in SUBSET { collected[i].url.host : i \in 1..Len(collected) } :
             tasks = [i \in 1..Len(collected) |->
                        SettledTask(collected[i], collected[i].url.host \in okHosts)]
    /\ downloadResults = AwaitedResults(tasks).results
    /\ urlToLocalPath = BuildMapping(<<>>, downloadResults)
    /\ disk = { LocalPath(tasks[i], ServedBytes(tasks[i].url)) :
                   i \in { j \in 1..Len(tasks) : tasks[j].result.success } }
    /\ pc = "rewrite"
    /\ queue = <<>>
    /\ activeCount = 0
    /\ processedPosts = <<>>
    /\ exportedFiles = <<>>
    /\ tempDirExists = options.bundleZip
    /\ written = <<>>
    /\ cli = NotRunByCli

NextExport ==
    \/ ProcessPostsWithLocalImages
    \/ ExportAsIndividualFiles
    \/ ExportToStructuredDirectories
    \/ SaveReports
    \/ ZipCreated
    \/ ZipFailed

ExportSpec == InitExport /\ [][NextExport]_vars

(* ------------------- the tag ranking on its own ----------------------- *)

Tag(name) == <<name>>

\* more distinct tags than the ranking keeps
ManyTags ==
    << Tag("a"), Tag("b"), Tag("c"), Tag("d"), Tag("e"), Tag("f"), Tag("g"), Tag("h"),
       Tag("i"), Tag("j"), Tag("k"), Tag("l") >>

\* The hashtags of a post: every list of up to two of three tags, two lists of
\* three, and a list longer than the ranking.
TagLists ==
    UNION { [1..n -> {Tag("a"), Tag("b"), Tag("c")}] : n \in 0..2 }
    \cup { << Tag("a"), Tag("a"), Tag("b") >>, << Tag("a"), Tag("b"), Tag("c") >>,
           << Tag("c"), Tag("a"), Tag("a") >>, ManyTags }

\* posts without images: identified by their ids, differing in their hashtags
TaggedCollections ==
    { [i \in 1..Len(lists) |->
          [Post(ExportPostId(i), <<>>, NoUrl, <<Text>>) EXCEPT !.hashtags = lists[i]]] :
         lists \in UNION { [1..n -> TagLists] : n \in 0..MaxExportPosts } }

\* exportAsBundle after downloadAllImages has returned with nothing to download
InitTags ==
    /\ options = [ concurrency |-> 1, retry |-> 1, timeoutMs |-> DefaultTimeoutMs,
                   downloadImages |-> TRUE, dryRun |-> FALSE, bundleZip |-> TRUE,
                   format |-> "all", includeContent |-> TRUE, includeImages |-> TRUE,
                   filename |-> "" ]
    /\ posts \in TaggedCollections
    /\ pc = "rewrite"
    /\ tasks = <<>>
    /\ queue = <<>>
    /\ activeCount = 0
    /\ downloadResults = <<>>
    /\ urlToLocalPath = <<>>
    /\ disk = {}
    /\ processedPosts = <<>>
    /\ exportedFiles = <<>>
    /\ tempDirExists = TRUE
    /\ written = <<>>
    /\ cli = NotRunByCli

NextTags ==
    \/ ProcessPostsWithLocalImages
    \/ ExportToStructuredDirectories
    \/ SaveReports

TagSpec == InitTags /\ [][NextTags]_vars

(* ------------------------- WixBlogExportCLI.run ------------------------ *)

\* String.prototype.trim
RECURSIVE TrimStart(_)
TrimStart(str) == IF str # <<>> /\ IsSpace(Head(str)) THEN TrimStart(Tail(str)) ELSE str

RECURSIVE TrimEnd(_)
TrimEnd(str) ==
    IF str # <<>> /\ IsSpace(str[Len(str)]) THEN TrimEnd(SubSeq(str, 1, Len(str) - 1)) ELSE str

Trim(str) == TrimEnd(TrimStart(str))

\* the positions of '=' in a line
EqualSigns(line) == { k \in 1..Len(line) : line[k] = "=" }

\* the first '=' of a line behind position from
NextEqualSign(line, from) ==
    CHOOSE k \in EqualSigns(line) :
       k > from /\ \A j \in EqualSigns(line) : j > from => k <= j

\* const [key, value] = line.split('='): the text before the first '=' and the text
\* between the first and the second one; value is undefined without a '='
KeyPart(line) ==
    IF EqualSigns(line) = {} THEN line ELSE SubSeq(line, 1, NextEqualSign(line, 0) - 1)

ValuePart(line) ==
    IF EqualSigns(line) = {} THEN <<>>
    ELSE SubSeq(line, NextEqualSign(line, 0) + 1,
                IF Cardinality(EqualSigns(line)) > 1
                THEN NextEqualSign(line, NextEqualSign(line, 0)) - 1 ELSE Len(line))

\* line.trim() && !line.startsWith('#'), then key && value
SetsVariable(line) ==
    /\ Trim(line) # <<>>
    /\ line[1] # "#"
    /\ KeyPart(line) # <<>>
    /\ ValuePart(line) # <<>>

RECURSIVE ParseEnv(_, _)
ParseEnv(env, lines) ==
    IF lines = <<>> THEN env
    ELSE ParseEnv(IF SetsVariable(Head(lines))
                  THEN MapSet(env, Trim(KeyPart(Head(lines))), Trim(ValuePart(Head(lines))))
                  ELSE env,
                  Tail(lines))

ApiKeyField == <<"WIX_API_KEY">>

AccountIdField == <<"WIX_ACCOUNT_ID">>

SiteIdField == <<"WIX_SITE_ID">>

RequiredFields == << ApiKeyField, AccountIdField, SiteIdField >>

\* !env[field]: unset, or set to the empty string
IsMissing(env, field) == MapGet(env, field) = <<>>

MissingFieldsApiKeyOnly(env) ==
    IF IsMissing(env, ApiKeyField) THEN <<ApiKeyField>> ELSE <<>>

\* required.filter(field => !env[field])
MissingFields(env) ==
    (IF IsMissing(env, ApiKeyField) THEN <<ApiKeyField>> ELSE <<>>)
    \o (IF IsMissing(env, AccountIdField) THEN <<AccountIdField>> ELSE <<>>)
    \o (IF IsMissing(env, SiteIdField) THEN <<SiteIdField>> ELSE <<>>)

\* loadCredentials: the credentials, or the message of the CredentialsError thrown
LoadCredentials(hasFile, lines) ==
    IF ~hasFile
    THEN [ threw |-> TRUE, message |-> <<"Missing .env.wix file">>, credentials |-> <<>> ]
    ELSE IF MissingFields(ParseEnv(<<>>, lines)) # <<>>
         THEN [ threw |-> TRUE,
                message |-> <<"Missing required fields: ">>
                            \o Join(MissingFields(ParseEnv(<<>>, lines)), ", "),
                credentials |-> <<>> ]
         ELSE [ threw |-> FALSE, message |-> <<>>,
                credentials |-> << MapGet(ParseEnv(<<>>, lines), ApiKeyField),
                                   MapGet(ParseEnv(<<>>, lines), AccountIdField),
                                   MapGet(ParseEnv(<<>>, lines), SiteIdField) >> ]

\* getExportOptions; outputDir is the working directory
CliOptions ==
    [ concurrency |-> 4, retry |-> DefaultRetry, timeoutMs |-> DefaultTimeoutMs,
      downloadImages |-> FALSE, dryRun |-> FALSE, bundleZip |-> FALSE, format |-> "all",
      includeContent |-> TRUE, includeImages |-> TRUE, filename |-> DefaultFilename ]

\* A line of .env.wix for a required field: set, set with blanks around the parts,
\* set to nothing, commented out, or no line at all.
EnvLinesFor(field) ==
    { << field \o <<"=", "v">> >>,
      << field \o <<" ", "=", " ", "v", " ">> >>,
      << field \o <<"=">> >>,
      << <<"#">> \o field \o <<"=", "v">> >>,
      <<>> }

EnvFiles ==
    { a \o b \o c : a \in EnvLinesFor(ApiKeyField), b \in EnvLinesFor(AccountIdField),
                    c \in EnvLinesFor(SiteIdField) }

\* the process is started in a directory with or without .env.wix
InitCli ==
    /\ \E hasFile \in BOOLEAN : \E lines \in (IF hasFile THEN EnvFiles ELSE {<<>>}) :
          cli = [ st |-> "start", envFile |-> lines, hasEnvFile |-> hasFile,
                  requests |-> <<>>, log |-> <<>>, exitCode |-> Running ]
    /\ options = CliOptions
    /\ posts = <<>>
    /\ pc = "idle"
    /\ tasks = <<>>
    /\ queue = <<>>
    /\ activeCount = 0
    /\ downloadResults = <<>>
    /\ urlToLocalPath = <<>>
    /\ disk = {}
    /\ processedPosts = <<>>
    /\ exportedFiles = <<>>
    /\ tempDirExists = FALSE
    /\ written = <<>>

\* process.exit(1) in the catch block of run
Exited(c, lines) ==
    [c EXCEPT !.st = "exited", !.log = c.log \o lines, !.exitCode = 1]

\* makeRequest('/posts', params): one fetch to the Wix API
Requested(c, request) == [c EXCEPT !.requests = Append(c.requests, request)]

ValidationRequest == <<"/posts", "limit=1">>

FetchRequest == <<"/posts", "limit=100", "offset=0", "fieldsets=FULL">>

\* run up to its first suspension: loadCredentials, then the request of
\* validateConnection; a CredentialsError logs its message when constructed.
Run ==
    /\ cli.st = "start"
    /\ cli' = IF LoadCredentials(cli.hasEnvFile, cli.envFile).threw
              THEN Exited(cli, <<LoadCredentials(cli.hasEnvFile, cli.envFile).message>>)
              ELSE [Requested(cli, ValidationRequest) EXCEPT !.st = "validating"]
    /\ UNCHANGED << options, posts, pc, tasks, queue, activeCount, downloadResults,
                    urlToLocalPath, disk, processedPosts, exportedFiles, tempDirExists,
                    written >>

\* What the Wix API answers: a page of posts, a status that is not ok, or no answer.
ApiFailures == {"401", "403", "500", "fetch failed"}

\* the message of the error makeRequest throws
ApiErrorMessage(failure) ==
    IF failure = "fetch failed" THEN <<"fetch failed">> ELSE <<"Wix API Error: ", failure>>

\* handleApiError: the diagnostic for the class of the failure
HandleApiError(failure) ==
    << <<"API connection failed">> >>
    \o (IF failure = "403" THEN << <<"Troubleshooting 403 Forbidden:">> >>
        ELSE IF failure = "401" THEN << <<"Troubleshooting 401 Unauthorized:">> >>
        ELSE <<>>)

\* the catch block of run for an error that is no CredentialsError
ExportFailed(message) == << <<"Export failed: ">> \o message >>

ValidationSwallowsError(failure) == FALSE

\* validateConnection: catch (error) { this.handleApiError(error); throw error; }
ValidationRethrows(failure) == TRUE

\* the request of validateConnection fails
ValidationFails(failure) ==
    /\ cli.st = "validating"
    /\ cli' = IF ValidationRethrows(failure)
              THEN Exited(cli, HandleApiError(failure) \o ExportFailed(ApiErrorMessage(failure)))
              ELSE [Requested([cli EXCEPT !.log = cli.log \o HandleApiError(failure)],
                              FetchRequest) EXCEPT !.st = "fetching"]
    /\ UNCHANGED << options, posts, pc, tasks, queue, activeCount, downloadResults,
                    urlToLocalPath, disk, processedPosts, exportedFiles, tempDirExists,
                    written >>

\* the request of validateConnection is answered with metaData.total; run goes on to
\* the first request of fetchAllPosts
ValidationSucceeds(total) ==
    /\ cli.st = "validating"
    /\ cli' = [Requested([cli EXCEPT !.log = cli.log
                                        \o << <<"Connection successful!">> >>
                                        \o (IF total = 0
                                            THEN << <<"No blog posts found.">> >> ELSE <<>>)],
                         FetchRequest) EXCEPT !.st = "fetching"]
    /\ UNCHANGED << options, posts, pc, tasks, queue, activeCount, downloadResults,
                    urlToLocalPath, disk, processedPosts, exportedFiles, tempDirExists,
                    written >>

\* the site's posts: fewer than one page of 100
RemoteCollections == { ps \in ExportCollections : Len(ps) <= 1 }

\* the request of fetchAllPosts fails: the error reaches the catch block of run
FetchFails(failure) ==
    /\ cli.st = "fetching"
    /\ cli' = Exited(cli, ExportFailed(ApiErrorMessage(failure)))
    /\ UNCHANGED << options, posts, pc, tasks, queue, activeCount, downloadResults,
                    urlToLocalPath, disk, processedPosts, exportedFiles, tempDirExists,
                    written >>

\* the only page arrives: run constructs the PostExporter and calls exportPosts
FetchSucceeds(ps) ==
    /\ cli.st = "fetching"
    /\ cli' = [cli EXCEPT !.st = "exporting",
                          !.log = cli.log \o << <<"Successfully fetched">> >>]
    /\ posts' = ps
    /\ pc' = "start"
    /\ UNCHANGED << options, tasks, queue, activeCount, downloadResults, urlToLocalPath,
                    disk, processedPosts, exportedFiles, tempDirExists, written >>

\* exportPosts has resolved: the summary is logged and run returns
RunReturns ==
    /\ cli.st = "exporting"
    /\ pc = "done"
    /\ cli' = [cli EXCEPT !.st = "finished", !.exitCode = 0,
                          !.log = cli.log \o << <<"Export completed successfully!">> >>]
    /\ UNCHANGED << options, posts, pc, tasks, queue, activeCount, downloadResults,
                    urlToLocalPath, disk, processedPosts, exportedFiles, tempDirExists,
                    written >>

NextCli ==
    \/ Run
    \/ \E failure \in ApiFailures : ValidationFails(failure)
    \/ \E total \in 0..1 : ValidationSucceeds(total)
    \/ \E failure \in ApiFailures : FetchFails(failure)
    \/ \E ps \in RemoteCollections : FetchSucceeds(ps)
    \/ ExportPosts
    \/ ProcessPostsWithLocalImages
    \/ ExportAsIndividualFiles
    \/ RunReturns

CliSpec == InitCli /\ [][NextCli]_vars

(* ---------------------- slugs the sanitizer meets ---------------------- *)

\* Slugs and ids of up to two characters: a dot, a letter, a blank and a character
\* the sanitizer removes.
SlugTexts == UNION { [1..n -> {".", "a", " ", "!"}] : n \in 0..2 }

\* one post with a cover image, whatever its slug and id
SlugCollections ==
    { << Post(id, slug, UrlA, <<>>) >> : id \in SlugTexts \ {<<>>}, slug \in SlugTexts }

\* exportPosts is called with image download on, two attempts per image
InitSlugs ==
    /\ options \in [ concurrency : {1}, retry : {2}, timeoutMs : {DefaultTimeoutMs},
                     downloadImages : {TRUE}, dryRun : {FALSE}, bundleZip : BOOLEAN,
                     format : {"all"}, includeContent : {TRUE}, includeImages : {TRUE},
                     filename : {DefaultFilename} ]
    /\ posts \in SlugCollections
    /\ pc = "start"
    /\ tasks = <<>>
    /\ queue = <<>>
    /\ activeCount = 0
    /\ downloadResults = <<>>
    /\ urlToLocalPath = <<>>
    /\ disk = {}
    /\ processedPosts = <<>>
    /\ exportedFiles = <<>>
    /\ tempDirExists = FALSE
    /\ written = <<>>
    /\ cli = NotRunByCli

SlugSpec == InitSlugs /\ [][Next]_vars

(* ------------------------------ properties ----------------------------- *)

TaskIds == 1..Len(tasks)

InFlight == { i \in TaskIds : tasks[i].st \in {"connecting", "body", "backoff"} }

InQueue(i) == \E k \in 1..Len(queue) : queue[k] = i

FailedTask(i) == tasks[i].st = "settled" /\ ~tasks[i].result.success

SucceededTask(i) == tasks[i].st = "settled" /\ tasks[i].result.success

DownloadsOver == pc \in {"rewrite", "export", "report", "zip", "done", "failed"}

IsImageFile(f) == Len(f) > Len(ImagesDir) /\ SubSeq(f, 1, Len(ImagesDir)) = ImagesDir

IsHttpAbsolute(u) == u.scheme \in {"http", "https"} /\ u.host \notin {"", "["}

\* C1: at every instant at most options.concurrency download tasks are started and
\* not yet settled, and every task that is neither started nor settled waits in the
\* limiter's queue.
C1_AtMostCInFlight ==
    /\ Cardinality(InFlight) <= options.concurrency
    /\ \A i \in TaskIds : tasks[i].st = "queued" <=> InQueue(i)

C1_Witness ==
    /\ options.concurrency = 2
    /\ Cardinality(InFlight) = 2
    /\ queue # <<>>

\* C2: the mapping is returned, the posts are processed and export, report or archive
\* files are written only when every download task of the run has settled.
C2_NothingConsumedBeforeSettled ==
    (\/ DownloadsOver
     \/ processedPosts # <<>>
     \/ urlToLocalPath # <<>>
     \/ exportedFiles # <<>>
     \/ \E f \in disk : ~IsImageFile(f))
    => \A i \in TaskIds : tasks[i].st = "settled"

C2_Witness ==
    /\ pc = "export"
    /\ options.bundleZip
    /\ \E i \in TaskIds : FailedTask(i)
    /\ \E i \in TaskIds : SucceededTask(i)

\* C3: whatever the outcomes of the download attempts, downloadAllImages returns
\* with one result per task and exportPosts does not reject because of them: flat
\* mode ends with every selected file written, bundle mode ends with the archive, and
\* only the archive step can make the run fail.
C3_FailuresNeverAbort ==
    /\ DownloadsOver /\ tasks # <<>> => Len(downloadResults) = Len(tasks)
    /\ pc = "failed" => options.bundleZip /\ processedPosts # <<>>
    /\ pc = "done" /\ ~options.bundleZip =>
          /\ Len(exportedFiles) = IF options.format = "all" THEN 3 ELSE 1
          /\ \A k \in 1..Len(exportedFiles) : OutputDir \o <<exportedFiles[k]>> \in disk
    /\ pc = "done" /\ options.bundleZip => exportedFiles = <<ZipPath>> /\ ZipPath \in disk

C3_Witness ==
    /\ pc = "done"
    /\ ~options.bundleZip
    /\ options.format = "all"
    /\ Len(tasks) >= 2
    /\ \A i \in TaskIds : FailedTask(i)
    /\ \E i, j \in TaskIds : tasks[i].result.error # tasks[j].result.error

\* C4: a task whose attempts all fail made exactly options.retry fetches and ends
\* with success=false, no local path and the message of its last failed attempt; a
\* task that succeeds on attempt k made exactly k fetches, k-1 of them failed, and
\* ends with success=true; the ledger then holds exactly that one entry per task.
C4_AttemptsAndLedgerEntry ==
    /\ \A i \in TaskIds :
          /\ FailedTask(i) =>
                /\ tasks[i].fetches = options.retry
                /\ tasks[i].failures = options.retry
                /\ tasks[i].result.localPath = NoPath
                /\ tasks[i].result.error = tasks[i].lastFailure
                /\ tasks[i].result.error # Absent
          /\ SucceededTask(i) =>
                /\ tasks[i].fetches = tasks[i].failures + 1
                /\ tasks[i].fetches <= options.retry
                /\ tasks[i].result.localPath # NoPath
                /\ tasks[i].result.error = Absent
          /\ tasks[i].fetches <= options.retry
    /\ DownloadsOver /\ tasks # <<>> =>
          downloadResults = [i \in TaskIds |-> tasks[i].result]

C4_Witness ==
    /\ DownloadsOver
    /\ options.retry = 2
    /\ \E i \in TaskIds : FailedTask(i) /\ tasks[i].fetches = 2
    /\ \E i \in TaskIds : SucceededTask(i) /\ tasks[i].fetches = 2

\* C5: after failed attempt a < R the task waits 2^a seconds before attempt a+1, so
\* the waits of a task in attempt n are 2, 4, .., 2^(n-1) seconds; after the R-th
\* failure it waits no more.
C5_ExponentialBackoff ==
    \A i \in TaskIds :
       /\ tasks[i].st = "backoff" =>
             /\ tasks[i].attempt < options.retry
             /\ tasks[i].backoffMs = (2 ^ tasks[i].attempt) * 1000
             /\ Len(tasks[i].waits) = tasks[i].attempt - 1
       /\ tasks[i].st \in {"connecting", "body"} =>
             Len(tasks[i].waits) = tasks[i].attempt - 1
       /\ \A k \in 1..Len(tasks[i].waits) : tasks[i].waits[k] = (2 ^ k) * 1000
       /\ FailedTask(i) =>
             /\ tasks[i].backoffMs = 0
             /\ Len(tasks[i].waits) = options.retry - 1

C5_Witness ==
    \E i \in TaskIds :
       /\ FailedTask(i)
       /\ options.retry = 3
       /\ tasks[i].waits = <<2000, 4000>>

\* C6 (as claimed): an attempt that has not completed when its deadline of
\* options.timeoutMs elapses is aborted, so no attempt is still running after it.
C6_NoAttemptOutlivesDeadline ==
    \A i \in TaskIds : tasks[i].st \in {"connecting", "body"} => ~tasks[i].deadlinePassed

\* C7: with downloadImages false or dryRun true there is no download task, no fetch,
\* no image file, no ledger entry and the mapping stays empty.
C7_SkipMeansNothingDownloaded ==
    (~options.downloadImages \/ options.dryRun) =>
        /\ tasks = <<>>
        /\ queue = <<>>
        /\ urlToLocalPath = <<>>
        /\ downloadResults = <<>>
        /\ \A f \in disk : ~IsImageFile(f)
        /\ \A i \in 1..Len(processedPosts) :
              /\ processedPosts[i].coverImageLocalPath = NoPath
              /\ processedPosts[i].localImagePaths = <<>>

C7_Witness ==
    /\ pc = "done"
    /\ options.dryRun
    /\ options.downloadImages
    /\ \E i \in 1..Len(posts) : posts[i].cover = UrlA

\* C8: every download task, and so every fetch and ledger entry, is for a URL that
\* parses as an absolute http or https URL; other candidates yield none of them.
C8_OnlyValidUrlsBecomeTasks ==
    /\ \A i \in TaskIds : IsHttpAbsolute(tasks[i].url)
    /\ \A k \in 1..Len(downloadResults) : IsHttpAbsolute(downloadResults[k].originalUrl)
    /\ pc # "start" /\ tasks # <<>> =>
          \A p \in 1..Len(posts) :
             /\ ~IsHttpAbsolute(posts[p].cover) =>
                   ~\E i \in TaskIds : tasks[i].postId = posts[p].id /\ tasks[i].type = "cover"
             /\ \A k \in 1..Len(posts[p].content) :
                   ~IsHttpAbsolute(posts[p].content[k].url) =>
                      ~\E i \in TaskIds : /\ tasks[i].postId = posts[p].id
                                          /\ tasks[i].url = posts[p].content[k].url

C8_Witness ==
    /\ DownloadsOver
    /\ downloadResults # <<>>
    /\ \E p \in 1..Len(posts) :
          /\ posts[p].cover = UrlFtp
          /\ \E k \in 1..Len(posts[p].content) : posts[p].content[k].url = UrlBadHost

InlineTasksFor(p, u) ==
    { i \in TaskIds : tasks[i].postId = posts[p].id /\ tasks[i].type = "inline"
                      /\ tasks[i].url = u }

RefersTo(p, u) ==
    \E k \in 1..Len(posts[p].content) :
       posts[p].content[k].kind = "img" /\ posts[p].content[k].url = u

AllUrls == {UrlA, UrlB, UrlBadHost, UrlFtp, UrlRelative, UrlData}

\* C9: the task list holds exactly one inline task per post and distinct valid URL
\* of that post's content, also when the post references the URL several times or
\* other posts reference it too, and the task stores under its own post's directory.
C9_InlineDedupePerPost ==
    pc # "start" /\ tasks # <<>> =>
       /\ \A p \in 1..Len(posts), u \in AllUrls :
             Cardinality(InlineTasksFor(p, u)) =
                IF RefersTo(p, u) /\ IsHttpAbsolute(u) THEN 1 ELSE 0
       /\ \A i \in TaskIds : \E p \in 1..Len(posts) :
             /\ tasks[i].postId = posts[p].id
             /\ tasks[i].postSlug = SanitizeFilename(SlugOrId(posts[p]))
             /\ SucceededTask(i) =>
                   /\ tasks[i].result.localPath[1] = <<"images">>
                   /\ tasks[i].result.localPath[2] = tasks[i].postSlug

C9_Witness ==
    /\ DownloadsOver
    /\ Len(posts) = 2
    /\ Cardinality(InlineTasksFor(1, UrlA)) = 1
    /\ Cardinality(InlineTasksFor(2, UrlA)) = 1
    /\ \A i \in TaskIds : SucceededTask(i)
    /\ \E i, j \in TaskIds : tasks[i].postSlug # tasks[j].postSlug

\* C10 (as claimed): the downloads of one URL for one post leave one file in that
\* post's image directory, also when the URL is both the cover and an inline image.
C10_OneFilePerUrlAndPost ==
    \A i, j \in TaskIds :
       (/\ SucceededTask(i)
        /\ SucceededTask(j)
        /\ tasks[i].postId = tasks[j].postId
        /\ tasks[i].url = tasks[j].url)
       => tasks[i].result.localPath = tasks[j].result.localPath

SuccessesFor(u) ==
    { k \in 1..Len(downloadResults) :
         downloadResults[k].originalUrl = u /\ downloadResults[k].success }

\* C11: once downloadAllImages has returned, a URL is a key of the mapping exactly
\* when some ledger entry for that URL has success=true, its value is the local path
\* of such an entry, and a URL whose tasks all failed is absent; before the return
\* the mapping is empty.
C11_MappingOnlyReflectsSuccesses ==
    /\ ~DownloadsOver => urlToLocalPath = <<>>
    /\ DOMAIN urlToLocalPath \subseteq AllUrls
    /\ DownloadsOver =>
          /\ \A u \in AllUrls : (u \in DOMAIN urlToLocalPath) <=> (SuccessesFor(u) # {})
          /\ \A u \in DOMAIN urlToLocalPath :
                /\ urlToLocalPath[u] # NoPath
                /\ \E k \in SuccessesFor(u) : urlToLocalPath[u] = downloadResults[k].localPath

C11_Witness ==
    /\ DownloadsOver
    /\ UrlA \in DOMAIN urlToLocalPath
    /\ UrlB \notin DOMAIN urlToLocalPath
    /\ \E k \in 1..Len(downloadResults) :
          downloadResults[k].originalUrl = UrlB /\ ~downloadResults[k].success

\* C12: a pass over N download tasks leaves N ledger entries, the k-th for the k-th
\* task, and the statistics satisfy attempted = N = downloaded + failed with failed
\* the number of entries of getFailedDownloads, each carrying an error text.
C12_LedgerAndStats ==
    /\ ~DownloadsOver => downloadResults = <<>>
    /\ DownloadsOver =>
          /\ Len(downloadResults) = Len(tasks)
          /\ \A k \in 1..Len(downloadResults) :
                /\ downloadResults[k].postId = tasks[k].postId
                /\ downloadResults[k].originalUrl = tasks[k].url
    /\ GetDownloadStats.attempted = Len(downloadResults)
    /\ GetDownloadStats.attempted = GetDownloadStats.downloaded + GetDownloadStats.failed
    /\ GetDownloadStats.failed = Len(GetFailedDownloads)
    /\ GetDownloadStats.downloaded =
          Cardinality({ k \in 1..Len(downloadResults) : downloadResults[k].success })
    /\ \A k \in 1..Len(GetFailedDownloads) :
          GetFailedDownloads[k].error \notin {Absent, "", "Unknown error"}

C12_Witness ==
    /\ DownloadsOver
    /\ Len(downloadResults) = 3
    /\ GetDownloadStats.downloaded = 1
    /\ GetDownloadStats.failed = 2

\* C13 (as claimed): in the posts processPostsWithLocalImages returns, every inline
\* image reference whose URL is a key of the mapping points to the mapped local path.
C13_UpdatedPostContentRewritten ==
    \A i \in 1..Len(processedPosts) : \A k \in 1..Len(posts[i].content) :
       (posts[i].content[k].kind = "img" /\ posts[i].content[k].url \in DOMAIN urlToLocalPath)
       => /\ processedPosts[i].content[k].alt = posts[i].content[k].alt
          /\ processedPosts[i].content[k].path = urlToLocalPath[posts[i].content[k].url]

MarkdownFiles == { f \in DOMAIN written : written[f].kind = "markdown" }

\* the content lines of the Markdown files on disk
WrittenContents ==
    UNION { { written[f].lines[k].content : k \in 1..Len(written[f].lines) } :
               f \in MarkdownFiles } \ {<<>>}

\* `after` is `before` with nothing changed but image references to keys of m
FrameHolds(before, after, m) ==
    /\ Len(after) = Len(before)
    /\ \A k \in 1..Len(before) :
          /\ after[k].kind = before[k].kind
          /\ after[k].alt = before[k].alt
          /\ after[k].body = before[k].body
          /\ (before[k].kind # "img" \/ before[k].url \notin DOMAIN m) => after[k] = before[k]
          /\ after[k] # before[k] => after[k].path = m[before[k].url]
    /\ m = <<>> => after = before

\* C14: rewriting a content with the mapping leaves every image reference whose URL
\* is not a key, and all text outside image references, as it was, keeps the alt
\* texts, and returns the input when the mapping is empty; the content sections of
\* the Markdown files written are such rewritings of the posts' contents.
C14_RewriteLeavesTheRestUntouched ==
    /\ \A i \in 1..Len(posts) :
          /\ FrameHolds(posts[i].content,
                        RewriteMarkdownImageUrls(posts[i].content, urlToLocalPath),
                        urlToLocalPath)
          /\ RewriteMarkdownImageUrls(posts[i].content, <<>>) = posts[i].content
    /\ \A c \in WrittenContents :
          \E i \in 1..Len(posts) : FrameHolds(posts[i].content, c, urlToLocalPath)

C14_Witness ==
    /\ pc = "done"
    /\ UrlB \notin DOMAIN urlToLocalPath
    /\ \E c \in WrittenContents : \E j, k \in 1..Len(c) :
          /\ c[j].path # NoPath
          /\ c[k].kind = "img" /\ c[k].url = UrlB /\ c[k].path = NoPath

\* an image reference the exporter's pattern recognises: ![alt](http...), the alt
\* text on one line
IsInlineReference(p) ==
    /\ p.kind = "img"
    /\ p.url.scheme \in {"http", "https"} /\ p.url.host # ""
    /\ \A k \in 1..Len(p.alt) : p.alt[k] # Newline

\* positions of the first references of a post's content to each URL of the mapping
FirstLocalized(content) ==
    { k \in 1..Len(content) :
         /\ IsInlineReference(content[k])
         /\ content[k].url \in DOMAIN urlToLocalPath
         /\ \A j \in 1..(k - 1) :
               ~(IsInlineReference(content[j]) /\ content[j].url = content[k].url) }

\* the elements of a finite set of numbers in increasing order
RECURSIVE Ascending(_)
Ascending(S) ==
    IF S = {} THEN <<>>
    ELSE LET least == CHOOSE x \in S : \A y \in S : x <= y
         IN <<least>> \o Ascending(S \ {least})

EffectiveStatus(p) == IF p.status = Absent THEN "PUBLISHED" ELSE p.status

WithStatus(ps, status) == { i \in 1..Len(ps) : EffectiveStatus(ps[i]) = status }

HeaderCount(lines, label) ==
    { lines[k].text : k \in { j \in 1..Len(lines) : lines[j].label = label } }

\* C16: for every post collection the published, draft and scheduled counts of the
\* exporter's grouping equal those of the report generator, a post without status
\* counting as Published in both, in the CSV status column and in the Markdown
\* status line; the counts written to the Markdown header and to the report agree
\* with both.
C16_StatusCountsAgree ==
    LET grouped == CategorizePosts(posts)
        counts == GenerateSummaryReport(posts, Customer, downloadResults).counts
    IN /\ Len(grouped.published) = counts.published
       /\ Len(grouped.drafts) = counts.draft
       /\ Len(grouped.scheduled) = counts.scheduled
       /\ counts.published = Cardinality(WithStatus(posts, "PUBLISHED"))
       /\ counts.draft = Cardinality(WithStatus(posts, "DRAFT"))
       /\ counts.scheduled = Cardinality(WithStatus(posts, "SCHEDULED"))
       /\ counts.total = counts.published + counts.draft + counts.scheduled
       /\ \A i \in 1..Len(processedPosts) :
             posts[i].status = Absent =>
                /\ CsvRow(processedPosts[i])[4] = <<Quote, "PUBLISHED", Quote>>
                /\ FormatPostAsMarkdown(processedPosts[i], urlToLocalPath)[2].text
                      = <<"Published">>
       /\ \A f \in DOMAIN written :
             /\ written[f].kind = "report-json" =>
                   /\ written[f].report.counts.published = Len(grouped.published)
                   /\ written[f].report.counts.draft = Len(grouped.drafts)
                   /\ written[f].report.counts.scheduled = Len(grouped.scheduled)
             /\ (written[f].kind = "markdown" /\ ~options.bundleZip) =>
                   /\ HeaderCount(written[f].lines, "- Published")
                         = {<<ToString(counts.published)>>}
                   /\ HeaderCount(written[f].lines, "- Drafts") = {<<ToString(counts.draft)>>}
                   /\ HeaderCount(written[f].lines, "- Scheduled")
                         = {<<ToString(counts.scheduled)>>}

C16_Witness ==
    /\ pc = "zip"
    /\ Len(posts) = 2
    /\ posts[1].status = Absent
    /\ posts[2].status = "PUBLISHED"
    /\ \E f \in DOMAIN written :
          written[f].kind = "report-json" /\ written[f].report.counts.published = 2

FlatFileName(ext) ==
    << IF options.filename # "" THEN options.filename ELSE "wix-blog-export", "-",
       Timestamp, ext >>

\* C17: flat mode returns, in the order JSON, Markdown, CSV, the names of exactly
\* the files its format selects (one, or three for all), each named
\* <base>-<timestamp>.<ext> with the one timestamp, and each is on disk under the
\* output directory with the content of its format; no other export file is written.
C17_FlatFilesByFormat ==
    ~options.bundleZip =>
       /\ pc # "done" => exportedFiles = <<>> /\ written = <<>>
       /\ pc = "done" =>
             /\ exportedFiles =
                   CASE options.format = "json" -> <<FlatFileName(".json")>>
                     [] options.format = "markdown" -> <<FlatFileName(".md")>>
                     [] options.format = "csv" -> <<FlatFileName(".csv")>>
                     [] options.format = "all" ->
                          <<FlatFileName(".json"), FlatFileName(".md"), FlatFileName(".csv")>>
             /\ DOMAIN written = { OutputDir \o <<exportedFiles[k]>> : k \in 1..Len(exportedFiles) }
             /\ DOMAIN written \subseteq disk
             /\ \A f \in disk : f \in DOMAIN written \/ IsImageFile(f)
             /\ \A k \in 1..Len(exportedFiles) :
                   written[OutputDir \o <<exportedFiles[k]>>].kind =
                      CASE exportedFiles[k][4] = ".json" -> "json"
                        [] exportedFiles[k][4] = ".md" -> "markdown"
                        [] exportedFiles[k][4] = ".csv" -> "csv"

C17_Witness ==
    /\ pc = "done"
    /\ ~options.bundleZip
    /\ options.format = "all"
    /\ options.filename = "my-blog"
    /\ Len(exportedFiles) = 3
    /\ Len(posts) = 2
    /\ \E f \in disk : IsImageFile(f)

\* the consolidated Markdown document of flat mode
FlatMarkdown == written[FlatPath(".md")].lines

SectionTitles == <<"# Published Posts", "# Draft Posts", "# Scheduled Posts">>

SectionStatus(title) ==
    CASE title = "# Published Posts" -> "PUBLISHED"
      [] title = "# Draft Posts" -> "DRAFT"
      [] title = "# Scheduled Posts" -> "SCHEDULED"

IsSectionLine(l) == \E n \in 1..Len(SectionTitles) : l.label = SectionTitles[n]

\* the lines of the document that open a section, and those that open a post
SectionLines(doc) == { k \in 1..Len(doc) : IsSectionLine(doc[k]) }

PostLines(doc) == { k \in 1..Len(doc) : doc[k].label = "##" }

\* the section line a post line stands under
SectionAbove(doc, k) ==
    CHOOSE j \in SectionLines(doc) : j < k /\ \A i \in SectionLines(doc) : i < k => i <= j

PostLinesUnder(doc, j) ==
    { k \in PostLines(doc) : \E i \in SectionLines(doc) : i < k } \cap
    { k \in PostLines(doc) : SectionAbove(doc, k) = j }

\* C18: in the consolidated Markdown document the sections come in the order
\* Published, Draft, Scheduled, each once at most and only when it has posts; a
\* section header carries the number of posts under it, the posts under it are
\* those of its status in input order, and every post stands in exactly one section.
C18_MarkdownSections ==
    (pc = "done" /\ FlatPath(".md") \in DOMAIN written) =>
       LET doc == FlatMarkdown
       IN /\ \A j, k \in SectionLines(doc) :
                j < k => \E m, n \in 1..Len(SectionTitles) :
                            m < n /\ doc[j].label = SectionTitles[m]
                                  /\ doc[k].label = SectionTitles[n]
          /\ \A k \in PostLines(doc) : \E j \in SectionLines(doc) : j < k
          /\ Cardinality(PostLines(doc)) = Len(posts)
          /\ \A n \in 1..Len(SectionTitles) :
                (\E j \in SectionLines(doc) : doc[j].label = SectionTitles[n])
                   <=> (WithStatus(posts, SectionStatus(SectionTitles[n])) # {})
          /\ \A j \in SectionLines(doc) :
                LET under == Ascending(PostLinesUnder(doc, j))
                    members == Ascending(WithStatus(posts, SectionStatus(doc[j].label)))
                IN /\ doc[j].text = <<ToString(Len(under))>>
                   /\ Len(under) = Len(members)
                   /\ \A n \in 1..Len(under) : doc[under[n]].text = posts[members[n]].title

C18_Witness ==
    /\ pc = "done"
    /\ FlatPath(".md") \in DOMAIN written
    /\ Len(posts) = 2
    /\ posts[1].status = "DRAFT"
    /\ posts[2].status = Absent
    /\ Cardinality(SectionLines(FlatMarkdown)) = 2

CsvFiles == { f \in DOMAIN written : written[f].kind = "csv" }

\* A reader of comma-separated text: fields are separated by commas and records by
\* line feeds that stand outside double quotes; a field that opens with a double
\* quote runs to its closing quote, a doubled quote inside it standing for one quote.
QuotesBefore(text, k) == Cardinality({ j \in 1..(k - 1) : text[j] = Quote })

OutsideQuotes(text, k) == QuotesBefore(text, k) % 2 = 0

\* the pieces of text that end before the separators at the positions ends
Segments(text, ends) ==
    [n \in 1..Cardinality(ends) |->
        SubSeq(text, (IF n = 1 THEN 0 ELSE Ascending(ends)[n - 1]) + 1,
               Ascending(ends)[n] - 1)]

RecordEnds(text) ==
    { k \in 1..Len(text) : text[k] = Newline /\ OutsideQuotes(text, k) }
    \cup (IF text # <<>> /\ ~(text[Len(text)] = Newline /\ OutsideQuotes(text, Len(text)))
          THEN {Len(text) + 1} ELSE {})

FieldEnds(rec) ==
    { k \in 1..Len(rec) : rec[k] = "," /\ OutsideQuotes(rec, k) } \cup {Len(rec) + 1}

Interior(fld) == SubSeq(fld, 2, Len(fld) - 1)

\* a field is bare text without quotes, or quoted text whose inner quotes come in pairs
FieldOk(fld) ==
    IF fld # <<>> /\ fld[1] = Quote
    THEN /\ Len(fld) >= 2
         /\ fld[Len(fld)] = Quote
         /\ \A j \in 1..Len(Interior(fld)) :
               (Interior(fld)[j] = Quote /\ ~OutsideQuotes(Interior(fld), j + 1))
                  => (j < Len(Interior(fld)) /\ Interior(fld)[j + 1] = Quote)
    ELSE \A j \in 1..Len(fld) : fld[j] # Quote

KeptPositions(inner) ==
    { j \in 1..Len(inner) : inner[j] # Quote \/ OutsideQuotes(inner, j + 1) }

FieldValue(fld) ==
    IF fld # <<>> /\ fld[1] = Quote
    THEN [n \in 1..Cardinality(KeptPositions(Interior(fld))) |->
             Interior(fld)[Ascending(KeptPositions(Interior(fld)))[n]]]
    ELSE fld

FieldsOf(rec) == Segments(rec, FieldEnds(rec))

ParseCsv(text) ==
    LET recs == Segments(text, RecordEnds(text))
    IN [ok |-> /\ OutsideQuotes(text, Len(text) + 1)
               /\ \A i \in 1..Len(recs) : \A k \in 1..Len(FieldsOf(recs[i])) :
                     FieldOk(FieldsOf(recs[i])[k]),
        records |-> [i \in 1..Len(recs) |->
                        [k \in 1..Len(FieldsOf(recs[i])) |-> FieldValue(FieldsOf(recs[i])[k])]]]

\* the values of the columns the model's posts can vary: id, slug, title, tags
ReadBack(record, post) ==
    /\ Len(record) = Len(CsvHeaders)
    /\ record[1] = post.id
    /\ record[2] = post.slug
    /\ record[3] = post.title
    /\ record[8] = post.url
    /\ record[9] = Join(post.hashtags, "|")
    /\ record[10] = Join(post.categoryIds, "|")

\* C19 (as claimed): every field of every post row of the CSV file is wrapped in
\* double quotes with the double quotes of its value doubled, so that a CSV reader
\* gets one record per post with the values of the post back.
C19_CsvFieldsQuotedAndEscaped ==
    \A f \in CsvFiles :
       /\ \A i \in 1..Len(processedPosts) : \A k \in 1..Len(CsvRow(processedPosts[i])) :
             LET cell == CsvRow(processedPosts[i])[k]
             IN cell[1] = Quote /\ cell[Len(cell)] = Quote
       /\ ParseCsv(written[f].text).ok
       /\ Len(ParseCsv(written[f].text).records) = Len(processedPosts) + 1
       /\ \A i \in 1..Len(processedPosts) :
             ReadBack(ParseCsv(written[f].text).records[i + 1], processedPosts[i])

\* the text cut at its line feeds
LineEnds(text) == { k \in 1..Len(text) : text[k] = Newline }

LineStart(text, end) ==
    IF \E k \in LineEnds(text) : k < end
    THEN (CHOOSE k \in LineEnds(text) : k < end /\ \A j \in LineEnds(text) : j < end => j <= k) + 1
    ELSE 1

LinesOf(text) ==
    [n \in 1..Cardinality(LineEnds(text)) |->
        SubSeq(text, LineStart(text, Ascending(LineEnds(text))[n]),
               Ascending(LineEnds(text))[n] - 1)]

\* C20 (as claimed): the CSV file is the header line followed by one line per post
\* in input order, N + 1 lines for N posts, whatever the field values.
C20_CsvOneLinePerPost ==
    \A f \in CsvFiles :
       LET lines == LinesOf(written[f].text)
       IN /\ Len(lines) = Len(processedPosts) + 1
          /\ lines[1] = Join(CsvHeaders, ",")
          /\ \A i \in 1..Len(processedPosts) :
                SubSeq(lines[i + 1], 1, Len(processedPosts[i].id) + 2)
                   = Quoted(processedPosts[i].id)

(* ------------------------ properties: C21 to C30 ----------------------- *)

PostMarkdownFiles ==
    { f \in DOMAIN written :
         /\ written[f].kind = "markdown"
         /\ Len(f) = Len(MarkdownDir) + 1
         /\ SubSeq(f, 1, Len(MarkdownDir)) = MarkdownDir }

\* C21 (as claimed): once exportToStructuredDirectories has run, posts/markdown
\* holds as many Markdown files as the collection has posts, and the file named
\* after the sanitized slug of each post holds the rendering of that post.
C21_OneMarkdownFilePerPost ==
    (options.bundleZip /\ pc \in {"report", "zip"}) =>
       /\ Cardinality(PostMarkdownFiles) = Len(posts)
       /\ \A i \in 1..Len(processedPosts) :
             /\ PostMarkdownPath(processedPosts[i]) \in PostMarkdownFiles
             /\ written[PostMarkdownPath(processedPosts[i])].lines
                   = FormatSinglePostAsMarkdown(processedPosts[i], urlToLocalPath)

\* C22: when exportAsBundle has finished, by returning the archive path or by
\* throwing the archive error, the staging directory and every file under it are
\* gone; an archive error leaves exportPosts rejected, with no file returned, and
\* a created archive is returned and on disk.
C22_StagingDirRemoved ==
    (options.bundleZip /\ pc \in {"done", "failed"}) =>
       /\ ~tempDirExists
       /\ \A f \in disk : ~InTempDir(f)
       /\ \A f \in DOMAIN written : ~InTempDir(f)
       /\ pc = "failed" => exportedFiles = <<>> /\ ZipPath \notin disk
       /\ pc = "done" => exportedFiles = <<ZipPath>> /\ ZipPath \in disk

\* the archive failed after posts and images had been staged
C22_Witness ==
    /\ options.bundleZip
    /\ pc = "failed"
    /\ ~tempDirExists
    /\ Len(processedPosts) = 2
    /\ \E i \in 1..Len(downloadResults) : downloadResults[i].success
    /\ disk = {}

\* the report stored in reports/summary.json
SummaryReport == written[SummaryJsonPath].report

TagsIn(ranking) == { ranking[k].tag : k \in 1..Len(ranking) }

\* position of the first occurrence of a tag over all posts' tag lists
FirstSeen(tag) ==
    CHOOSE k \in 1..Len(AllHashtags(posts)) :
       /\ AllHashtags(posts)[k] = tag
       /\ \A j \in 1..(k - 1) : AllHashtags(posts)[j] # tag

\* a ranks before b: more frequent, or as frequent and encountered first
RanksBefore(a, b) ==
    \/ Occurrences(a, AllHashtags(posts)) > Occurrences(b, AllHashtags(posts))
    \/ /\ Occurrences(a, AllHashtags(posts)) = Occurrences(b, AllHashtags(posts))
       /\ FirstSeen(a) < FirstSeen(b)

AllTagsOfPosts == { AllHashtags(posts)[k] : k \in 1..Len(AllHashtags(posts)) }

\* C23: tagsTop10 of the saved report lists distinct tags with their frequencies
\* over all posts' tag lists, at most 10 of them and all of them when there are
\* no more than 10, by non-increasing frequency and, at equal frequency, in the
\* order of first occurrence; no tag left out ranks before a tag listed.
C23_TagsTop10Ranking ==
    SummaryJsonPath \in DOMAIN written =>
       LET top == SummaryReport.tagsTop10
       IN /\ Len(top) <= TopTagsLimit
          /\ Len(top) = IF Cardinality(AllTagsOfPosts) < TopTagsLimit
                        THEN Cardinality(AllTagsOfPosts) ELSE TopTagsLimit
          /\ \A k \in 1..Len(top) :
                /\ top[k].tag \in AllTagsOfPosts
                /\ top[k].count = Occurrences(top[k].tag, AllHashtags(posts))
          /\ \A k \in 1..Len(top) : \A j \in (k + 1)..Len(top) :
                RanksBefore(top[k].tag, top[j].tag)
          /\ \A t \in AllTagsOfPosts \ TagsIn(top) : \A k \in 1..Len(top) :
                RanksBefore(top[k].tag, t)
          /\ AllHashtags(posts)
                = << Tag("a"), Tag("a"), Tag("b"), Tag("a"), Tag("b"), Tag("c") >>
                => top = << [tag |-> Tag("a"), count |-> 3], [tag |-> Tag("b"), count |-> 2],
                            [tag |-> Tag("c"), count |-> 1] >>

\* twelve distinct tags, two of them repeated in a second post: the ranking is cut
\* at ten, ties standing in the order of first occurrence
C23_Witness ==
    /\ SummaryJsonPath \in DOMAIN written
    /\ Len(posts) = 2
    /\ posts[1].hashtags = ManyTags
    /\ posts[2].hashtags = << Tag("c"), Tag("a"), Tag("a") >>
    /\ Len(SummaryReport.tagsTop10) = TopTagsLimit
    /\ SummaryReport.tagsTop10[1] = [tag |-> Tag("a"), count |-> 3]
    /\ SummaryReport.tagsTop10[2] = [tag |-> Tag("c"), count |-> 2]
    /\ SummaryReport.tagsTop10[3] = [tag |-> Tag("b"), count |-> 1]
    /\ Tag("l") \notin TagsIn(SummaryReport.tagsTop10)

\* a line of .env.wix that is no comment gives the field a value that is not blank
HasValue(field) ==
    \E k \in 1..Len(cli.envFile) :
       /\ cli.envFile[k][1] # "#"
       /\ Trim(KeyPart(cli.envFile[k])) = field
       /\ Trim(ValuePart(cli.envFile[k])) # <<>>

\* .env.wix is missing, or it gives no value to a required field
CredentialFailure ==
    \/ ~cli.hasEnvFile
    \/ \E k \in 1..Len(RequiredFields) : ~HasValue(RequiredFields[k])

Logged(line) == \E k \in 1..Len(cli.log) : cli.log[k] = line

\* C24: when .env.wix is missing or lacks a required field, the run is either not
\* past loadCredentials or has exited with status 1 with the error logged; no
\* request was issued, exportPosts was not called and no file was written.
C24_CredentialFailureStopsRun ==
    CredentialFailure =>
       /\ cli.st \in {"start", "exited"}
       /\ cli.st = "exited" =>
             /\ cli.exitCode = 1
             /\ Len(cli.log) = 1
             /\ cli.hasEnvFile => cli.log[1][1] = "Missing required fields: "
             /\ ~cli.hasEnvFile => cli.log[1] = <<"Missing .env.wix file">>
       /\ cli.requests = <<>>
       /\ pc = "idle"
       /\ disk = {}
       /\ written = <<>>

\* the file gives the key and the account but only a blank site id
C24_Witness ==
    /\ cli.st = "exited"
    /\ cli.exitCode = 1
    /\ cli.hasEnvFile
    /\ HasValue(ApiKeyField)
    /\ HasValue(AccountIdField)
    /\ ~HasValue(SiteIdField)
    /\ cli.log = << <<"Missing required fields: ", "WIX_SITE_ID">> >>
    /\ cli.requests = <<>>

\* validateConnection has caught an error
ValidationFailed == Logged(<<"API connection failed">>)

\* C25: when the request of validateConnection fails, the diagnostic is logged and
\* the error reaches the catch block of run: the run has exited with status 1 with
\* the error's message logged last, the validation request is the only request
\* issued, no post was fetched and no file was written.
C25_ValidationFailureAbortsRun ==
    ValidationFailed =>
       /\ cli.st = "exited"
       /\ cli.exitCode = 1
       /\ cli.log[Len(cli.log)][1] = "Export failed: "
       /\ cli.log[Len(cli.log)] \in
             { ExportFailed(ApiErrorMessage(failure))[1] : failure \in ApiFailures }
       /\ cli.log[Len(cli.log)] = ExportFailed(ApiErrorMessage("403"))[1]
             <=> Logged(<<"Troubleshooting 403 Forbidden:">>)
       /\ cli.log[Len(cli.log)] = ExportFailed(ApiErrorMessage("401"))[1]
             <=> Logged(<<"Troubleshooting 401 Unauthorized:">>)
       /\ cli.requests = <<ValidationRequest>>
       /\ posts = <<>>
       /\ pc = "idle"
       /\ disk = {}
       /\ written = <<>>

\* the API answered the validation request with 403 Forbidden
C25_Witness ==
    /\ cli.st = "exited"
    /\ cli.exitCode = 1
    /\ cli.log = << <<"API connection failed">>, <<"Troubleshooting 403 Forbidden:">>,
                    <<"Export failed: ", "Wix API Error: ", "403">> >>
    /\ cli.requests = <<ValidationRequest>>
    /\ disk = {}

\* the posts in the order the consolidated document shows them
DocumentOrder ==
    CategorizePosts(processedPosts).published \o CategorizePosts(processedPosts).drafts
    \o CategorizePosts(processedPosts).scheduled

\* the labels of the n-th post of the document: from its title line to the rule
\* that closes it
PostBlockLabels(doc, n) ==
    LET from == Ascending(PostLines(doc))[n]
        to == CHOOSE k \in from..Len(doc) :
                 doc[k].label = "---" /\ \A j \in from..(k - 1) : doc[j].label # "---"
    IN { doc[k].label : k \in from..to }

\* C26: in the consolidated Markdown document the rendering of a post has a Content
\* section exactly when content inclusion is enabled and the post has content, a
\* Tags line exactly when the post has a tag, a Featured line exactly when the post
\* is featured, and a cover image embed exactly when image inclusion is enabled and
\* the post has a cover image.
C26_OptionalPartsOmitted ==
    FlatPath(".md") \in DOMAIN written =>
       /\ Cardinality(PostLines(FlatMarkdown)) = Len(processedPosts)
       /\ \A n \in 1..Len(DocumentOrder) :
             /\ "### Content" \in PostBlockLabels(FlatMarkdown, n)
                   <=> (options.includeContent /\ DocumentOrder[n].content # <<>>)
             /\ "Tags" \in PostBlockLabels(FlatMarkdown, n)
                   <=> DocumentOrder[n].hashtags # <<>>
             /\ "Featured" \in PostBlockLabels(FlatMarkdown, n)
                   <=> DocumentOrder[n].featured
             /\ "Cover Image" \in PostBlockLabels(FlatMarkdown, n)
                   <=> (options.includeImages /\ DocumentOrder[n].cover # NoUrl)

\* a draft without content, tags or cover next to a featured post that has them all
C26_Witness ==
    /\ FlatPath(".md") \in DOMAIN written
    /\ options.includeContent
    /\ options.includeImages
    /\ Len(posts) = 2
    /\ posts[1].status = "DRAFT" /\ posts[1].content = <<>> /\ posts[1].hashtags = <<>>
    /\ posts[1].cover = NoUrl /\ ~posts[1].featured
    /\ posts[2].featured /\ posts[2].content # <<>> /\ posts[2].hashtags # <<>>
    /\ posts[2].cover # NoUrl
    /\ PostBlockLabels(FlatMarkdown, 1)
          = {"##", "Status", "Slug", "Reading Time", "### Excerpt", "---"}
    /\ {"### Content", "Tags", "Featured", "Cover Image"}
          \subseteq PostBlockLabels(FlatMarkdown, 2)

\* the local paths attached to a processed post or shown when it is rendered
LocalPathsOf(post) ==
    (IF post.coverImageLocalPath # NoPath THEN {post.coverImageLocalPath} ELSE {})
    \cup { post.localImagePaths[k] : k \in 1..Len(post.localImagePaths) }
    \cup { RenderedContent(post, urlToLocalPath)[k].path :
              k \in { j \in 1..Len(post.content) :
                         RenderedContent(post, urlToLocalPath)[j].path # NoPath } }

\* the path of a file a task of this post has downloaded
DownloadedFor(post, path) ==
    \E k \in 1..Len(downloadResults) :
       /\ downloadResults[k].postId = post.id
       /\ downloadResults[k].success
       /\ downloadResults[k].localPath = path

\* C27 (as claimed): every local path of a processed post lies under
\* images/<sanitized slug of that post>/ and is the path of a file downloaded for
\* that post.
C27_LocalPathsArePostScoped ==
    \A i \in 1..Len(processedPosts) : \A path \in LocalPathsOf(processedPosts[i]) :
       /\ Len(path) = 3
       /\ path[1] = <<"images">>
       /\ path[2] = SanitizeFilename(SlugOrId(processedPosts[i]))
       /\ DownloadedFor(processedPosts[i], path)

Started(i) == tasks[i].st = "queued" /\ tasks'[i].st # "queued"

\* C28: the slots taken are those of the tasks that are fetching or backing off,
\* never more than the concurrency; a queued task is started only while fewer than
\* that many tasks are fetching or backing off, and a task that backs off goes on
\* to its next attempt without passing through the queue again.
C28_SlotHeldThroughBackoff ==
    [][ /\ activeCount = Cardinality(InFlight)
        /\ Cardinality(InFlight) <= options.concurrency
        /\ \A i \in TaskIds :
              /\ Started(i) => Cardinality(InFlight) < options.concurrency
              /\ tasks[i].st = "backoff" =>
                    /\ ~InQueue(i)
                    /\ tasks'[i].st \in {"backoff", "connecting"}
      ]_vars

\* every slot is taken, one of them by a task waiting to retry, and a task queues
C28_Witness ==
    /\ pc = "awaiting"
    /\ queue # <<>>
    /\ activeCount = options.concurrency
    /\ \E i \in TaskIds : tasks[i].st = "backoff"
    /\ Cardinality(InFlight) = options.concurrency

\* C29 (as claimed): when every fetch attempt eventually succeeds, fails or reaches
\* its timeout, downloadAllImages eventually returns: the run gets past the wait
\* for the download tasks.
C29_DownloadAllImagesReturns == <>DownloadsOver

\* C30 (as claimed): while the downloads run and when they are over, every file on
\* disk is an image file images/<S>/<name> under the output root, S being a
\* directory name that is not empty.
C30_ImagesInsidePostDirectories ==
    pc \in {"awaiting", "rewrite"} =>
       \A f \in disk :
          /\ Len(f) = Len(ImagesDir) + 2
          /\ SubSeq(f, 1, Len(ImagesDir)) = ImagesDir
          /\ f[Len(ImagesDir) + 1] # <<>>

====
